---- MODULE Spec2Model ----
(***************************************************************************)
(* Blooming Beauty Skin POS: the caching proxy (static/service-worker.js)  *)
(* and the client data layer (static/script.js: catalog pagination, cart   *)
(* reconciliation, checkout totals).                                       *)
(*                                                                         *)
(* Fourteen specifications share the module's variables:                   *)
(*   Spec         the worker's lifecycle: the browser's steps and the      *)
(*                install, activate and message listeners                  *)
(*   SpecRoute    the activated worker's fetch listener, one request of    *)
(*                every branch                                             *)
(*   SpecPages    the same serving a page to navigations and scripts       *)
(*   SpecManifestPages  the same, with a page of the install manifest      *)
(*   SpecFallback navigations to a page, the site root and the offline     *)
(*                page, under every content of the partitions              *)
(*   SpecStatic   the same serving a static asset                          *)
(*   SpecCatalogPaging  POSSystem.init(): its three calls, the listeners   *)
(*                it attaches when the last has settled, and paging        *)
(*   SpecCatalogStart   the same with the category buttons, which exist    *)
(*                before the other listeners                               *)
(*   SpecCatalog  every caller of loadProducts                             *)
(*   SpecCatalogLive  loadProducts under fairness of the settling of       *)
(*                fetches                                                  *)
(*   SpecCart     the cart mutations and loadCart                          *)
(*   SpecCartOverlap  cart mutations in flight together                    *)
(*   SpecCheckout the checkout form's live totals and checkout             *)
(*   SpecPwa      the same lifecycle with registerServiceWorker in a tab   *)
(* Each leaves the parts it does not exercise in one fixed state.  A       *)
(* handler of the worker takes one step per call it awaits, so that the    *)
(* handlers of several events interleave as they do in the worker.         *)
(*                                                                         *)
(* A URL path is the sequence of its segments: "/" is << >>, "/offline"    *)
(* is <<"offline">>, "/api/cart" is <<"api", "cart">>.  Money in JSON and  *)
(* in text is a decimal numeral, kept as its hundredths; money in the      *)
(* script is a Number, kept as the IEEE-754 double it is.                  *)
(***************************************************************************)
EXTENDS Integers, Sequences, FiniteSets, Bags, TLC

VARIABLES
    \* ---- service worker ----
    swState,        \* lifecycle position of this worker: parsed, installing, installed,
                    \* activating, activated
    cacheNames,     \* CacheStorage keys in creation order (caches.keys())
    cacheStore,     \* partition name -> (path -> stored response or Undefined)
    cacheDetached,  \* cache objects of deleted partitions that handlers still hold
    handlers,       \* bag of the fetch handlers between two of their awaits
    swListener,     \* the install or activate listener between two of its awaits
    swLast,         \* what the last service-worker event did (observation)
    swReplaced,     \* the entry the cache.put of the last event replaced (observation)
    \* ---- catalog data layer ----
    products, catalogTotalCount, currentQuery, currentCategory,
    nextOffset, hasMoreProducts, isFetchingProducts, productPageSize,
    catalogInit,    \* position of init(): which of its three calls have settled, the
                    \* category buttons made, the listeners of bindEvents attached
    catalogFetch,   \* the outstanding /api/products/lazy requests (sequence)
    pendingSaves,   \* scheduled saveSnapshot callbacks of persistProductsToCache
    cachedProducts, \* localStorage key cached_products (a list, or absent)
    catLast,        \* what the last catalog event did (observation)
    pagesSinceReset,\* history: what the responses applied since the last reset load carried
    completedLists, \* history: which of this.products, the empty list and the stored
                    \* snapshot is a list that a successful load of this visit ended with
    filterChanged,  \* history: the filter changed and no request has been issued since
    \* ---- cart and checkout ----
    cart,           \* this.cart: the array of cart items
    cartOrigin,     \* history: where the value of this.cart came from
    cartRun,        \* history: how the cart mutations since the cart was last at rest
                    \* went: "none", "single", "overlap" (two in flight at once, none
                    \* failed so far), "broken" (one failed)
    lastOrder,      \* this.lastOrder: null or the record of the last confirmed order
    cartStorage,    \* localStorage key cart (a list, or absent)
    serverCart,     \* the server's session cart (external): quantity of the product
    cartOps,        \* bag of the cart operations between their fetch call and their end
    cartItems,      \* the lines of the #cart-items node as renderCart last wrote them
    checkoutSubtotal, \* text of the #checkout-subtotal node
    cartLast,       \* what the last cart event did (observation)
    \* ---- service-worker registration in a tab ----
    pwaDoc,         \* the tab's document: listeners attached, reload guard, reload calls
    tabReloads,     \* history: automatic reloads the tab has gone through
    pwaReg,         \* the registration: the tab's controller, the active worker, the newest worker
    pwaInbox,       \* messages posted to workers and not yet delivered
    pwaEvents,      \* the tasks queued for the tab's document (events to dispatch), in order
    pwaLast         \* what the last registration event did (observation)

swVars == <<swState, cacheNames, cacheStore, cacheDetached, handlers, swListener,
            swLast, swReplaced>>
catVars == <<products, catalogTotalCount, currentQuery, currentCategory,
             nextOffset, hasMoreProducts, isFetchingProducts, productPageSize,
             catalogInit, catalogFetch, pendingSaves, cachedProducts, catLast,
             pagesSinceReset, completedLists, filterChanged>>
cartVars == <<cart, cartOrigin, cartRun, lastOrder, cartStorage, serverCart, cartOps,
              cartItems, checkoutSubtotal, cartLast>>
pwaVars == <<pwaDoc, tabReloads, pwaReg, pwaInbox, pwaEvents, pwaLast>>
vars == <<swVars, catVars, cartVars, pwaVars>>

Max(a, b) == IF a >= b THEN a ELSE b
Min(a, b) == IF a <= b THEN a ELSE b

(***************************************************************************)
(*                         SERVICE WORKER                                  *)
(***************************************************************************)

\* Bounds of the service-worker model.
MaxHandlers == 2    \* fetch handlers between their network outcome and their answer, or
                    \* refreshing in the background, at once
MaxWorkerVersions == 2  \* worker versions deployed while the tab is open
MaxInbox == 1           \* messages posted to workers and not yet delivered

SW_VERSION == "bbs-pwa-v3"
STATIC_CACHE == "bbs-pwa-v3-static"
RUNTIME_CACHE == "bbs-pwa-v3-runtime"
OLD_STATIC_CACHE == "bbs-pwa-v2-static"
OLD_RUNTIME_CACHE == "bbs-pwa-v2-runtime"
AllCacheNames == {STATIC_CACHE, RUNTIME_CACHE, OLD_STATIC_CACHE, OLD_RUNTIME_CACHE}

ROOT_URL == << >>
OFFLINE_URL == <<"offline">>
MANIFEST_URL == <<"manifest.webmanifest">>
STYLE_URL == <<"static", "style.css">>
ABOUT_URL == <<"about">>
API_CART_URL == <<"api", "cart">>
API_BARE_URL == <<"api">>
PRECACHE_URLS ==
    << ROOT_URL,
       OFFLINE_URL,
       STYLE_URL,
       <<"static", "script.js">>,
       MANIFEST_URL,
       <<"static", "icons", "pwa-icon-192.png">>,
       <<"static", "icons", "pwa-icon-512.png">>,
       <<"static", "icons", "apple-touch-icon-180.png">> >>

SeqRange(s) == {s[i] : i \in 1..Len(s)}
Urls == SeqRange(PRECACHE_URLS) \cup {ABOUT_URL, API_CART_URL, API_BARE_URL}

\* The requests the environment sends through the fetch event, by workload.
Request(method, origin, mode, path) ==
    [method |-> method, origin |-> origin, mode |-> mode, path |-> path]
\* One request of every branch of the fetch listener, and a navigation under /api/.
RoutedRequests ==
    {Request("GET", "self", "navigate", API_CART_URL),
     Request("GET", "self", "cors", API_CART_URL),
     Request("GET", "self", "cors", STYLE_URL),
     Request("GET", "self", "cors", ABOUT_URL),
     Request("POST", "self", "cors", API_CART_URL),
     Request("GET", "cdn", "cors", STYLE_URL)}
\* A page opened as a document and fetched by a script.
PageRequests ==
    {Request("GET", "self", "navigate", ABOUT_URL),
     Request("GET", "self", "cors", ABOUT_URL)}
\* The same, and a navigation to a page of the install manifest.
ManifestPageRequests ==
    PageRequests \cup {Request("GET", "self", "navigate", OFFLINE_URL)}
\* Navigations to a page, to the site root and to the offline page.
NavigationRequests ==
    {Request("GET", "self", "navigate", ABOUT_URL),
     Request("GET", "self", "navigate", ROOT_URL),
     Request("GET", "self", "navigate", OFFLINE_URL)}
\* A static asset.
StaticRequests == {Request("GET", "self", "cors", STYLE_URL)}

\* Responses.  Undefined is the absence of one (cache.match resolving undefined).
\* A body is named by where it came from: "network" (a live fetch), "precached" (stored
\* by install), "old" (left by an earlier worker), a message (synthesized), "" (none).
Undefined == [url |-> << >>, status |-> 0, type |-> "undefined", body |-> ""]
ResponseError == [url |-> << >>, status |-> 0, type |-> "error", body |-> ""]
Rejected == [url |-> << >>, status |-> 0, type |-> "rejected", body |-> ""]
Basic(path, status, body) == [url |-> path, status |-> status, type |-> "basic", body |-> body]

\* offlineJsonResponse(message): status 503 and the JSON text of {success: false,
\* message}; the type "offline-json" stands for the success: false member and the
\* body is named by the message.
OfflineJsonResponse(message) ==
    [url |-> << >>, status |-> 503, type |-> "offline-json", body |-> message]
OFFLINE_MESSAGE == "You are offline right now."
OfflineJson == OfflineJsonResponse(OFFLINE_MESSAGE)

\* What fetch(request) can settle with: a rejection, or a response of any status.  A
\* static asset can come as the server's file is now ("network") or as it is after
\* a later deployment ("network-later"); responses may arrive in any order.
ContentVersions(request) ==
    IF request.mode # "navigate" /\ request.path = STYLE_URL
    THEN {"network", "network-later"} ELSE {"network"}
NetworkOutcomes(request) ==
    {Rejected, Basic(request.path, 404, "network")}
    \cup {Basic(request.path, 200, body) : body \in ContentVersions(request)}
    \cup (IF request.mode = "navigate"
          THEN {[url |-> request.path, status |-> 0, type |-> "opaqueredirect", body |-> ""]}
          ELSE {})

EmptyPartition == [u \in Urls |-> Undefined]

\* url.pathname.startsWith("/" + dir + "/")
StartsWithDir(path, dir) == Len(path) >= 2 /\ path[1] = dir

\* No respondWith promise settled in this step.
NoAnswer == [url |-> << >>, status |-> 0, type |-> "none", body |-> ""]
NoRequest == [method |-> "none", origin |-> "none", mode |-> "none", path |-> << >>]

\* ---- CacheStorage ----

\* caches.open(name): the partition is created, last in creation order, when absent.
CachesOpen(names, name) ==
    IF name \in SeqRange(names) THEN names ELSE Append(names, name)

\* caches.match(request): the partitions are searched in creation order and the
\* first entry found is the result.
RECURSIVE CachesMatchFrom(_, _, _, _)
CachesMatchFrom(names, store, path, i) ==
    IF i > Len(names) THEN Undefined
    ELSE IF store[names[i]][path] # Undefined THEN store[names[i]][path]
    ELSE CachesMatchFrom(names, store, path, i + 1)

CachesMatch(names, store, path) == CachesMatchFrom(names, store, path, 1)

\* Mutant of CachePut: an entry already stored under the key is kept.
CachePut_FirstWriteWins(store, name, path, response) ==
    IF store[name][path] # Undefined THEN store
    ELSE [store EXCEPT ![name] = [@ EXCEPT ![path] = response]]

\* cache.put(request, response.clone()) on partition name.
CachePut(store, name, path, response) ==
    [store EXCEPT ![name] = [@ EXCEPT ![path] = response]]

\* Mutant of IsCacheable: the status test is lost.
IsCacheable_NoStatusTest(response) ==
    ~(response.type = "error")

\* The condition under which cacheSuccessResponse stores the response.
IsCacheable(response) ==
    ~(response.status # 200 \/ response.type = "error")

\* Mutant of Route: the /api/ prefix is tested before the request mode.
Route_ApiBeforeNavigate(request) ==
    IF request.method # "GET" THEN "passthrough"
    ELSE IF request.origin # "self" THEN "passthrough"
    ELSE IF StartsWithDir(request.path, "api") THEN "api"
    ELSE IF request.mode = "navigate" THEN "navigationHandler"
    ELSE IF StartsWithDir(request.path, "static") \/ request.path = MANIFEST_URL
    THEN "staleWhileRevalidate"
    ELSE "networkFirst"

\* Mutant of Route: the origin test is lost.
Route_IgnoresOrigin(request) ==
    IF request.method # "GET" THEN "passthrough"
    ELSE IF request.mode = "navigate" THEN "navigationHandler"
    ELSE IF StartsWithDir(request.path, "api") THEN "api"
    ELSE IF StartsWithDir(request.path, "static") \/ request.path = MANIFEST_URL
    THEN "staleWhileRevalidate"
    ELSE "networkFirst"

\* ---- request routing (the fetch listener's classification) ----
Route(request) ==
    IF request.method # "GET" THEN "passthrough"
    ELSE IF request.origin # "self" THEN "passthrough"
    ELSE IF request.mode = "navigate" THEN "navigationHandler"
    ELSE IF StartsWithDir(request.path, "api") THEN "api"
    ELSE IF StartsWithDir(request.path, "static") \/ request.path = MANIFEST_URL
    THEN "staleWhileRevalidate"
    ELSE "networkFirst"


\* ---- cache objects ----

\* The Cache object a handler holds between caches.open and its next call on it:
\* the partition of that name (id 0) or, once the partition was deleted while the
\* object was held, the object itself, which stays usable (id > 0).
NoCache == [name |-> "none", id |-> 0]
CacheOf(name) == [name |-> name, id |-> 0]

\* A fetch handler between two of its awaits.  pc names what it awaits; response is
\* what its fetch(request) settled with (Undefined before); waiting says that its respondWith promise has not
\* settled yet (staleWhileRevalidate settles it before the refresh ends).
Handler(kind, request, pc, response, cache, waiting) ==
    [kind |-> kind, request |-> request, pc |-> pc, response |-> response,
     cache |-> cache, waiting |-> waiting]
NoHandler == Handler("none", NoRequest, "none", Undefined, NoCache, FALSE)

\* The install or activate listener between two of its awaits.
Listener(pc, cache, deletes) == [pc |-> pc, cache |-> cache, deletes |-> deletes]
NoListener == Listener("none", NoCache, {})

\* The cache storage together with the handlers that hold objects of it.
Storage(names, store, detached, running, listener) ==
    [names |-> names, store |-> store, detached |-> detached,
     handlers |-> running, listener |-> listener]

FreeId(detached) ==
    LET free == (1..(Cardinality(DOMAIN detached) + 1)) \ DOMAIN detached
    IN  CHOOSE i \in free : \A j \in free : i <= j

\* caches.delete(name) succeeding: the partition leaves the storage; the objects
\* held on it keep its entries.
CachesDelete(w, name) ==
    IF name \notin SeqRange(w.names) THEN w
    ELSE LET held == \/ \E t \in BagToSet(w.handlers) : t.cache = CacheOf(name)
                     \/ w.listener.cache = CacheOf(name)
             id == FreeId(w.detached)
             Detach(t) == IF t.cache = CacheOf(name)
                          THEN [t EXCEPT !.cache = [name |-> name, id |-> id]] ELSE t
         IN  Storage(SelectSeq(w.names, LAMBDA n : n # name),
                     [w.store EXCEPT ![name] = EmptyPartition],
                     IF held THEN (id :> w.store[name]) @@ w.detached ELSE w.detached,
                     BagOfAll(Detach, w.handlers),
                     Detach(w.listener))

RECURSIVE CachesDeleteAll(_, _)
CachesDeleteAll(w, names) ==
    IF names = << >> THEN w
    ELSE CachesDeleteAll(CachesDelete(w, Head(names)), Tail(names))

\* cache.match(request) on a held object.
CacheObjectMatch(w, cache, path) ==
    IF cache.id = 0 THEN w.store[cache.name][path] ELSE w.detached[cache.id][path]

\* cache.put(request, response) on a held object.
CacheObjectPut(w, cache, path, response) ==
    IF cache.id = 0
    THEN [w EXCEPT !.store = CachePut(w.store, cache.name, path, response)]
    ELSE [w EXCEPT !.detached = [@ EXCEPT ![cache.id] = [@ EXCEPT ![path] = response]]]

\* A handler moves on to its next await (next) or ends (NoHandler).
Continue(w, t, next) ==
    [w EXCEPT !.handlers = IF next = NoHandler THEN @ (-) SetToBag({t})
                           ELSE (@ (-) SetToBag({t})) (+) SetToBag({next})]
Start(w, next) ==
    IF next = NoHandler THEN w ELSE [w EXCEPT !.handlers = @ (+) SetToBag({next})]

\* ---- strategies: what a handler does when the call it awaits settles ----

\* Mutant of CacheNameOf: networkFirst stores in the static partition.
CacheNameOf_NetworkFirstStatic(kind) ==
    IF kind = "navigationHandler" THEN RUNTIME_CACHE ELSE STATIC_CACHE

\* The partition each strategy names in its call of cacheSuccessResponse.
CacheNameOf(kind) ==
    IF kind = "staleWhileRevalidate" THEN STATIC_CACHE ELSE RUNTIME_CACHE

\* The caller of cacheSuccessResponse when caches.open or cache.put threw:
\* navigationHandler awaits the call inside its try and enters its catch block;
\* networkFirst returns the promise of the call, so its own promise rejects;
\* staleWhileRevalidate's .catch(() => null) makes the network promise null.
AfterCacheThrow(t) ==
    IF t.kind = "navigationHandler"
    THEN [next |-> [t EXCEPT !.pc = "cachedPage", !.cache = NoCache], answer |-> NoAnswer]
    ELSE IF t.kind = "networkFirst"
    THEN [next |-> NoHandler, answer |-> Rejected]
    ELSE [next |-> NoHandler, answer |-> IF t.waiting THEN ResponseError ELSE NoAnswer]

\* The caller of cacheSuccessResponse when the call returned the response.
AfterCacheReturn(t) ==
    IF t.kind = "staleWhileRevalidate"
    THEN [next |-> NoHandler, answer |-> IF t.waiting THEN t.response ELSE NoAnswer]
    ELSE [next |-> NoHandler, answer |-> t.response]

\* navigationHandler / networkFirst when fetch(request) settled with net: the catch
\* block on a rejection; cacheSuccessResponse otherwise, which returns at once for a
\* response it does not store.
TryFetch(kind, request, net, firstOfCatch) ==
    IF net = Rejected
    THEN [next |-> Handler(kind, request, firstOfCatch, Rejected, NoCache, TRUE),
          answer |-> NoAnswer]
    ELSE IF ~IsCacheable(net)
    THEN [next |-> NoHandler, answer |-> net]
    ELSE [next |-> Handler(kind, request, "csr-open", net, NoCache, TRUE),
          answer |-> NoAnswer]

NavigationHandler(request, net) == TryFetch("navigationHandler", request, net, "cachedPage")

NetworkFirst(request, net) == TryFetch("networkFirst", request, net, "cache")

\* Mutant of FallbackKey: the home page is looked up before the requested page.
FallbackKey_HomeFirst(pc, request) ==
    IF pc = "cachedPage" THEN ROOT_URL
    ELSE IF pc = "homeFromCache" THEN request.path
    ELSE OFFLINE_URL

\* The catch block of navigationHandler: the key each of its three caches.match
\* calls looks up.
FallbackKey(pc, request) ==
    IF pc = "cachedPage" THEN request.path
    ELSE IF pc = "homeFromCache" THEN ROOT_URL
    ELSE OFFLINE_URL

\* The catch block of navigationHandler when the caches.match it awaits resolved
\* with found.
NavigationFallback(t, found) ==
    IF found # Undefined THEN [next |-> NoHandler, answer |-> found]
    ELSE IF t.pc = "cachedPage"
    THEN [next |-> [t EXCEPT !.pc = "homeFromCache"], answer |-> NoAnswer]
    ELSE IF t.pc = "homeFromCache"
    THEN [next |-> [t EXCEPT !.pc = "offlinePage"], answer |-> NoAnswer]
    ELSE [next |-> NoHandler, answer |-> ResponseError]

\* The catch block of networkFirst when cache.match(request) resolved with found,
\* and when caches.match(OFFLINE_URL) did: its result is returned as it is.
NetworkFirstFallback(t, found) ==
    IF t.pc = "cachedResponse" /\ found = Undefined
    THEN [next |-> [t EXCEPT !.pc = "offline", !.cache = NoCache], answer |-> NoAnswer]
    ELSE [next |-> NoHandler, answer |-> found]

\* Mutant of ApiFetch: a response with an error status is replaced like a rejection.
ApiFetch_ReplacesErrorStatus(request, net) ==
    IF net = Rejected \/ net.status # 200 THEN OfflineJson ELSE net

\* The /api/ branch: fetch(request).catch(() => offlineJsonResponse(...)).
ApiFetch(request, net) ==
    IF net = Rejected THEN OfflineJson ELSE net

\* Mutant of SwrStart: the network promise is awaited before the cached copy is used.
SwrStart_AwaitsNetwork(t, cachedResponse) ==
    [next |-> [t EXCEPT !.pc = "networkPromise", !.cache = NoCache, !.waiting = TRUE],
     answer |-> NoAnswer]

\* staleWhileRevalidate when cache.match resolved: fetch is called, and the cached
\* copy, when there is one, is returned while the network promise is pending.
SwrStart(t, cachedResponse) ==
    [next |-> [t EXCEPT !.pc = "networkPromise", !.cache = NoCache,
                        !.waiting = (cachedResponse = Undefined)],
     answer |-> IF cachedResponse # Undefined THEN cachedResponse ELSE NoAnswer]

\* Mutant of SwrSettle: a response that is not stored ends the refresh like a
\* stored one, through cacheSuccessResponse's write.
SwrSettle_StoresAny(t, net) ==
    IF net = Rejected
    THEN [next |-> NoHandler, answer |-> IF t.waiting THEN ResponseError ELSE NoAnswer]
    ELSE [next |-> [t EXCEPT !.pc = "csr-open", !.response = net], answer |-> NoAnswer]

\* The network promise of staleWhileRevalidate when fetch settled with net:
\* .then(cacheSuccessResponse).catch(() => null), and, for the caller that awaits
\* it, networkResponse || Response.error().
SwrSettle(t, net) ==
    IF net = Rejected
    THEN [next |-> NoHandler, answer |-> IF t.waiting THEN ResponseError ELSE NoAnswer]
    ELSE IF ~IsCacheable(net)
    THEN [next |-> NoHandler, answer |-> IF t.waiting THEN net ELSE NoAnswer]
    ELSE [next |-> [t EXCEPT !.pc = "csr-open", !.response = net], answer |-> NoAnswer]

\* ---- events ----

SwObs(op, request, network, answer, wrote, read, deleted) ==
    [op |-> op, request |-> request, network |-> network, answer |-> answer,
     wrote |-> wrote, read |-> read, deleted |-> deleted]

PwaObs(op, data, called, posted, ignored) ==
    [op |-> op, data |-> data, called |-> called, posted |-> posted, ignored |-> ignored]

\* ---- the registration, as the browser keeps it for the tab ----

\* The newest worker of the registration; its state is swState.
\*   version      0 when the registration has no worker of this script
\*   skipWaiting  the places from which it has called self.skipWaiting(): "install"
\*                (the install listener), "message" (the message listener); the
\*                browser's skip-waiting flag is set when there is one
NoWorker == [version |-> 0, skipWaiting |-> {}]

\* registration.waiting: the newest worker, while it is installed and not yet active.
Waiting == IF pwaReg.worker.version # 0 /\ swState = "installed" THEN pwaReg.worker ELSE NoWorker

\* The workers that run and can be sent a message.
Alive == {pwaReg.active, pwaReg.worker.version} \ {0}

\* The tasks the browser queues for the tab's document.
UpdateFoundEvent(version) == [type |-> "updatefound", version |-> version, state |-> "installing"]
StateChangeEvent(version, state) == [type |-> "statechange", version |-> version, state |-> state]
ControllerChangeEvent == [type |-> "controllerchange", version |-> 0, state |-> "none"]

\* updatefound and statechange are fired at the registration and worker objects of
\* the document, which exist once register() has resolved in it; controllerchange
\* is fired at navigator.serviceWorker, which every document has.
Dispatched(events) ==
    SelectSeq(events, LAMBDA e : e.type = "controllerchange" \/ pwaDoc.registered)

\* What a step of the worker's lifecycle leaves in the registration, and the tasks
\* it queues for the document, in the order they are queued.
Lifecycle(reg, events) ==
    /\ pwaReg' = reg
    /\ pwaEvents' = pwaEvents \o Dispatched(events)
    /\ pwaLast' = PwaObs("worker", "no-data", FALSE, FALSE, FALSE)
    /\ UNCHANGED <<pwaDoc, tabReloads, pwaInbox>>

\* The worker whose install failed is discarded.
Discarded == [pwaReg EXCEPT !.worker = NoWorker]

\* What a browser profile can hold when this worker version is first parsed:
\* nothing, the partitions of the previous version, or (the script changed without
\* a version bump) partitions already carrying this version's names.
OldStaticEntries ==
    [EmptyPartition EXCEPT ![ROOT_URL] = Basic(ROOT_URL, 200, "old"),
                           ![OFFLINE_URL] = Basic(OFFLINE_URL, 200, "old")]
OldRuntimeEntries == [EmptyPartition EXCEPT ![ABOUT_URL] = Basic(ABOUT_URL, 200, "old")]
PrecachedEntries(status, body) ==
    [u \in Urls |-> IF u \in SeqRange(PRECACHE_URLS) THEN Basic(u, status, body) ELSE Undefined]

FreshProfile ==
    [names |-> << >>,
     store |-> [n \in AllCacheNames |-> EmptyPartition]]
PreviousVersionProfile ==
    [names |-> <<OLD_STATIC_CACHE, OLD_RUNTIME_CACHE>>,
     store |-> [n \in AllCacheNames |->
                  IF n = OLD_STATIC_CACHE THEN OldStaticEntries
                  ELSE IF n = OLD_RUNTIME_CACHE THEN OldRuntimeEntries
                  ELSE EmptyPartition]]
InitialProfiles ==
    { FreshProfile,
      PreviousVersionProfile,
      [names |-> <<OLD_STATIC_CACHE, STATIC_CACHE, RUNTIME_CACHE>>,
       store |-> [n \in AllCacheNames |->
                    IF n = OLD_STATIC_CACHE THEN OldStaticEntries
                    ELSE IF n = STATIC_CACHE THEN PrecachedEntries(200, "precached")
                    ELSE IF n = RUNTIME_CACHE THEN OldRuntimeEntries
                    ELSE EmptyPartition]] }

SwInit ==
    /\ swState = "parsed"
    /\ \E p \in InitialProfiles : cacheNames = p.names /\ cacheStore = p.store
    /\ cacheDetached = << >>
    /\ handlers = EmptyBag
    /\ swListener = NoListener
    /\ swLast = SwObs("none", NoRequest, Undefined, NoAnswer, {}, FALSE, {})
    /\ swReplaced = Undefined

\* The storage and the handlers as they are, and as a step leaves them.  An object
\* of a deleted partition is dropped with the last handler that holds it.
Now == Storage(cacheNames, cacheStore, cacheDetached, handlers, swListener)
Becomes(w) ==
    /\ cacheNames' = w.names
    /\ cacheStore' = w.store
    /\ handlers' = w.handlers
    /\ swListener' = w.listener
    /\ cacheDetached' =
          [id \in ({t.cache.id : t \in BagToSet(w.handlers)} \cup {w.listener.cache.id}) \ {0}
              |-> w.detached[id]]

\* Whether a storage call succeeds or rejects (quota, a failing backend).
StorageOk == BOOLEAN

\* Statuses cache.addAll accepts: an ok status other than 206.
PrecacheOkStatuses == {200, 204}

\* cache.addAll(PRECACHE_URLS) on a cache object holding entries: every asset is
\* stored or, when one fetch or the write fails, none.
InstallResult(entries, allOk, status) ==
    IF allOk
    THEN [u \in Urls |-> IF u \in SeqRange(PRECACHE_URLS)
                         THEN Basic(u, status, "precached") ELSE entries[u]]
    ELSE entries

\* The browser finds a new worker script (register(), registration.update(), a
\* navigation): the worker is created, becomes the registration's installing worker,
\* updatefound is fired and the install event is dispatched, whose listener calls
\* caches.open(STATIC_CACHE).  A new script is looked for when no worker is on its
\* way to activation.
UpdateFound ==
    /\ pwaReg.latest < MaxWorkerVersions
    /\ pwaReg.worker.version = 0 \/ swState = "activated"
    /\ swListener = NoListener
    /\ swState' = "parsed"
    /\ Becomes(Now)
    /\ swLast' = SwObs("updatefound", NoRequest, Undefined, NoAnswer, {}, FALSE, {})
    /\ swReplaced' = Undefined
    /\ LET version == pwaReg.latest + 1
       IN  Lifecycle([pwaReg EXCEPT !.latest = version,
                                    !.worker = [version |-> version, skipWaiting |-> {}]],
                     <<UpdateFoundEvent(version)>>)
    /\ UNCHANGED <<catVars, cartVars>>

\* install, up to the end of caches.open(STATIC_CACHE).  When it rejects the promise
\* given to waitUntil rejects and the worker is discarded.
Install ==
    /\ pwaReg.worker.version # 0
    /\ swState = "parsed"
    /\ swListener = NoListener
    /\ \E ok \in StorageOk :
         IF ok
         THEN /\ Becomes([Now EXCEPT !.names = CachesOpen(@, STATIC_CACHE),
                                     !.listener = Listener("addAll", CacheOf(STATIC_CACHE), {})])
              /\ swState' = "installing"
              /\ swLast' = SwObs("install-open", NoRequest, Undefined, NoAnswer, {}, FALSE, {})
              /\ Lifecycle(pwaReg, << >>)
         ELSE /\ Becomes(Now)
              /\ swState' = "redundant"
              /\ swLast' = SwObs("install-failed", NoRequest, Undefined, NoAnswer, {}, FALSE, {})
              /\ Lifecycle(Discarded, <<StateChangeEvent(pwaReg.worker.version, "redundant")>>)
    /\ swReplaced' = Undefined
    /\ UNCHANGED <<catVars, cartVars>>

\* install: cache.addAll(PRECACHE_URLS) settles, on the object install holds, and
\* self.skipWaiting() is called.  The entries count as written to a partition when
\* the object still is one.
InstallAddAll ==
    /\ swListener.pc = "addAll"
    /\ \E allOk \in BOOLEAN, status \in PrecacheOkStatuses :
         LET cache == swListener.cache
             entries == InstallResult(IF cache.id = 0 THEN cacheStore[cache.name]
                                      ELSE cacheDetached[cache.id], allOk, status)
             stored == IF cache.id = 0
                       THEN [Now EXCEPT !.store = [@ EXCEPT ![cache.name] = entries]]
                       ELSE [Now EXCEPT !.detached = [@ EXCEPT ![cache.id] = entries]]
         IN  /\ Becomes([stored EXCEPT !.listener =
                            IF allOk THEN Listener("skipWaiting", NoCache, {}) ELSE NoListener])
             /\ swState' = IF allOk THEN "installing" ELSE "redundant"
             /\ swLast' = SwObs(IF allOk THEN "install-addAll" ELSE "install-failed", NoRequest,
                                Undefined, NoAnswer,
                                IF allOk /\ cache.id = 0
                                THEN {<<cache.name, u>> : u \in SeqRange(PRECACHE_URLS)}
                                ELSE {},
                                FALSE, {})
             /\ IF allOk
                THEN Lifecycle([pwaReg EXCEPT !.worker.skipWaiting = @ \cup {"install"}], << >>)
                ELSE Lifecycle(Discarded,
                               <<StateChangeEvent(pwaReg.worker.version, "redundant")>>)
    /\ swReplaced' = Undefined
    /\ UNCHANGED <<catVars, cartVars>>

\* install: self.skipWaiting() settles and the promise given to waitUntil fulfils;
\* the worker is installed and becomes the registration's waiting worker.
InstallSkipWaiting ==
    /\ swListener.pc = "skipWaiting"
    /\ Becomes([Now EXCEPT !.listener = NoListener])
    /\ swState' = "installed"
    /\ swLast' = SwObs("install", NoRequest, Undefined, NoAnswer, {}, FALSE, {})
    /\ swReplaced' = Undefined
    /\ Lifecycle(pwaReg, <<StateChangeEvent(pwaReg.worker.version, "installed")>>)
    /\ UNCHANGED <<catVars, cartVars>>

\* The browser activates the waiting worker: at once when it has called
\* skipWaiting(), otherwise only when no client is controlled by another worker.  It
\* becomes the active worker, a tab that the registration's previous worker controls
\* is handed to it (controllerchange), and the activate event is dispatched, whose
\* listener calls caches.keys().
WorkerActivates ==
    /\ Waiting # NoWorker
    /\ swListener = NoListener
    /\ Waiting.skipWaiting # {} \/ pwaReg.controller = 0
    /\ swState' = "activating"
    /\ Becomes([Now EXCEPT !.listener = Listener("keys", NoCache, {})])
    /\ swLast' = SwObs("activating", NoRequest, Undefined, NoAnswer, {}, FALSE, {})
    /\ swReplaced' = Undefined
    /\ LET version == pwaReg.worker.version
           controlled == pwaReg.controller # 0
       IN  Lifecycle([pwaReg EXCEPT !.active = version,
                                    !.controller = IF controlled THEN version ELSE @],
                     <<StateChangeEvent(version, "activating")>>
                        \o (IF controlled THEN <<ControllerChangeEvent>> ELSE << >>))
    /\ UNCHANGED <<catVars, cartVars>>

\* Mutant of IsStale: only the static partition is spared.
IsStale_SparesStaticOnly(cacheName) == cacheName # STATIC_CACHE

\* activate: the filter of the partitions to delete.
IsStale(cacheName) == cacheName # STATIC_CACHE /\ cacheName # RUNTIME_CACHE

\* activate: caches.keys() settles.  caches.delete is called for every stale name
\* (Promise.all); with none, clients.claim() is called at once.  When caches.keys()
\* rejects the promise given to waitUntil rejects, clients.claim() is never called,
\* and the browser finishes the activation all the same.
Activate ==
    /\ swListener.pc = "keys"
    /\ \E ok \in StorageOk :
         LET stale == {n \in SeqRange(cacheNames) : IsStale(n)}
         IN  IF ok
             THEN /\ Becomes([Now EXCEPT !.listener =
                                 IF stale = {} THEN Listener("claim", NoCache, {})
                                 ELSE Listener("deletes", NoCache, stale)])
                  /\ swState' = "activating"
                  /\ swLast' = SwObs("activate-keys", NoRequest, Undefined, NoAnswer, {}, TRUE, {})
                  /\ Lifecycle(pwaReg, << >>)
             ELSE /\ Becomes([Now EXCEPT !.listener = NoListener])
                  /\ swState' = "activated"
                  /\ swLast' = SwObs("activate-failed", NoRequest, Undefined, NoAnswer, {}, FALSE, {})
                  /\ Lifecycle(pwaReg, <<StateChangeEvent(pwaReg.worker.version, "activated")>>)
    /\ swReplaced' = Undefined
    /\ UNCHANGED <<catVars, cartVars>>

\* activate: one of the caches.delete calls settles.  The first rejection rejects
\* Promise.all and with it the promise given to waitUntil, so that clients.claim()
\* is never called; the deletes still pending then settle on their own
\* ("deletes-unawaited").
ActivateDelete ==
    /\ swListener.pc \in {"deletes", "deletes-unawaited"}
    /\ \E name \in swListener.deletes : \E ok \in StorageOk :
         LET left == swListener.deletes \ {name}
             awaited == swListener.pc = "deletes"
             w == IF ok THEN CachesDelete(Now, name) ELSE Now
             listener ==
                 IF awaited /\ ok
                 THEN (IF left = {} THEN Listener("claim", NoCache, {})
                       ELSE Listener("deletes", NoCache, left))
                 ELSE (IF left = {} THEN NoListener
                       ELSE Listener("deletes-unawaited", NoCache, left))
         IN  /\ Becomes([w EXCEPT !.listener = listener])
             /\ swState' = IF awaited /\ ~ok THEN "activated" ELSE swState
             /\ swLast' = SwObs(IF ok THEN "activate-delete" ELSE "activate-failed", NoRequest,
                                Undefined, NoAnswer, {}, FALSE,
                                IF ok THEN {name} \cap SeqRange(cacheNames) ELSE {})
             /\ Lifecycle(pwaReg,
                          IF awaited /\ ~ok
                          THEN <<StateChangeEvent(pwaReg.worker.version, "activated")>>
                          ELSE << >>)
    /\ swReplaced' = Undefined
    /\ UNCHANGED <<catVars, cartVars>>

\* activate: clients.claim() settles and the promise given to waitUntil fulfils.  A
\* tab that this worker does not control yet gets it as its controller
\* (controllerchange).
ActivateClaim ==
    /\ swListener.pc = "claim"
    /\ Becomes([Now EXCEPT !.listener = NoListener])
    /\ swState' = "activated"
    /\ swLast' = SwObs("activate", NoRequest, Undefined, NoAnswer, {}, FALSE, {})
    /\ swReplaced' = Undefined
    /\ LET version == pwaReg.worker.version
           claimed == pwaReg.controller # version
       IN  Lifecycle([pwaReg EXCEPT !.controller = version],
                     (IF claimed THEN <<ControllerChangeEvent>> ELSE << >>)
                        \o <<StateChangeEvent(version, "activated")>>)
    /\ UNCHANGED <<catVars, cartVars>>

\* message: skipWaiting() is called for {type: "SKIP_WAITING"} only.
MessageData == {"SKIP_WAITING", "OTHER", "no-data"}

\* Mutant of CallsSkipWaiting: any message that carries data is obeyed.
CallsSkipWaiting_AnyMessage(data) == data # "no-data"

CallsSkipWaiting(data) == data # "no-data" /\ data = "SKIP_WAITING"

\* The message listener of the addressed worker runs; a message for a worker that
\* was discarded meanwhile is lost.
Message ==
    /\ pwaInbox # << >>
    /\ LET m == Head(pwaInbox)
           delivered == m.to \in Alive
           called == delivered /\ CallsSkipWaiting(m.data)
       IN  /\ pwaReg' = IF called /\ pwaReg.worker.version = m.to
                        THEN [pwaReg EXCEPT !.worker.skipWaiting = @ \cup {"message"}]
                        ELSE pwaReg
           /\ swLast' = SwObs(IF called THEN "message-skipWaiting"
                              ELSE IF delivered THEN "message-ignored" ELSE "message-lost",
                              NoRequest, Undefined, NoAnswer, {}, FALSE, {})
           /\ pwaLast' = PwaObs(IF delivered THEN "message" ELSE "message-lost", m.data,
                                called, FALSE, FALSE)
    /\ pwaInbox' = Tail(pwaInbox)
    /\ swReplaced' = Undefined
    /\ UNCHANGED <<swState, cacheNames, cacheStore, cacheDetached, handlers, swListener,
                   catVars, cartVars, pwaDoc, tabReloads, pwaEvents>>

\* Some client posts a message that is not the activation request, to the newest
\* worker.
PostOther ==
    /\ Len(pwaInbox) < MaxInbox
    /\ pwaReg.worker.version # 0
    /\ \E data \in MessageData \ {"SKIP_WAITING"} :
         pwaInbox' = Append(pwaInbox, [to |-> pwaReg.worker.version, data |-> data])
    /\ pwaLast' = PwaObs("post-other", "no-data", FALSE, FALSE, FALSE)
    /\ UNCHANGED <<pwaDoc, tabReloads, pwaReg, pwaEvents>>
    /\ UNCHANGED <<swVars, catVars, cartVars>>

\* fetch: one intercepted request.  A request that goes to the network first is taken
\* up where fetch(request) has settled; a staleWhileRevalidate request where
\* caches.open(STATIC_CACHE) has.
FetchPassthrough(request) ==
    /\ swState = "activated"
    /\ Route(request) = "passthrough"
    /\ Becomes(Now)
    /\ swLast' = SwObs("fetch-passthrough", request, Undefined, NoAnswer, {}, FALSE, {})
    /\ swReplaced' = Undefined
    /\ UNCHANGED <<swState, catVars, cartVars, pwaVars>>

FetchApi(request) ==
    /\ swState = "activated"
    /\ Route(request) = "api"
    /\ \E net \in NetworkOutcomes(request) :
         /\ Becomes(Now)
         /\ swLast' = SwObs("fetch-api", request, net, ApiFetch(request, net), {}, FALSE, {})
    /\ swReplaced' = Undefined
    /\ UNCHANGED <<swState, catVars, cartVars, pwaVars>>

FetchNavigation(request) ==
    /\ swState = "activated"
    /\ Route(request) = "navigationHandler"
    /\ BagCardinality(handlers) < MaxHandlers
    /\ \E net \in NetworkOutcomes(request) :
         LET r == NavigationHandler(request, net)
         IN  /\ Becomes(Start(Now, r.next))
             /\ swLast' = SwObs("fetch-navigation", request, net, r.answer, {}, FALSE, {})
    /\ swReplaced' = Undefined
    /\ UNCHANGED <<swState, catVars, cartVars, pwaVars>>

FetchNetworkFirst(request) ==
    /\ swState = "activated"
    /\ Route(request) = "networkFirst"
    /\ BagCardinality(handlers) < MaxHandlers
    /\ \E net \in NetworkOutcomes(request) :
         LET r == NetworkFirst(request, net)
         IN  /\ Becomes(Start(Now, r.next))
             /\ swLast' = SwObs("fetch-networkFirst", request, net, r.answer, {}, FALSE, {})
    /\ swReplaced' = Undefined
    /\ UNCHANGED <<swState, catVars, cartVars, pwaVars>>

FetchStatic(request) ==
    /\ swState = "activated"
    /\ Route(request) = "staleWhileRevalidate"
    /\ BagCardinality(handlers) < MaxHandlers
    /\ \E ok \in StorageOk :
         IF ok
         THEN /\ Becomes(Start([Now EXCEPT !.names = CachesOpen(@, STATIC_CACHE)],
                               Handler("staleWhileRevalidate", request, "cachedResponse",
                                       Undefined, CacheOf(STATIC_CACHE), TRUE)))
              /\ swLast' = SwObs("fetch-static", request, Undefined, NoAnswer, {}, FALSE, {})
         ELSE /\ Becomes(Now)
              /\ swLast' = SwObs("fetch-static", request, Undefined, Rejected, {}, FALSE, {})
    /\ swReplaced' = Undefined
    /\ UNCHANGED <<swState, catVars, cartVars, pwaVars>>

\* staleWhileRevalidate: cache.match(request) settles, on the object the handler holds.
SwrMatch ==
    /\ \E t \in BagToSet(handlers) :
         /\ t.kind = "staleWhileRevalidate" /\ t.pc = "cachedResponse"
         /\ LET r == SwrStart(t, CacheObjectMatch(Now, t.cache, t.request.path))
            IN  /\ Becomes(Continue(Now, t, r.next))
                /\ swLast' = SwObs("static-cachedResponse", t.request, Undefined, r.answer,
                                   {}, TRUE, {})
    /\ swReplaced' = Undefined
    /\ UNCHANGED <<swState, catVars, cartVars, pwaVars>>

\* staleWhileRevalidate: fetch(request) of the network promise settles.
RefreshSettle ==
    /\ \E t \in BagToSet(handlers) :
         /\ t.kind = "staleWhileRevalidate" /\ t.pc = "networkPromise"
         /\ \E net \in NetworkOutcomes(t.request) :
              LET r == SwrSettle(t, net)
              IN  /\ Becomes(Continue(Now, t, r.next))
                  /\ swLast' = SwObs("refresh", t.request, net, r.answer, {}, FALSE, {})
    /\ swReplaced' = Undefined
    /\ UNCHANGED <<swState, catVars, cartVars, pwaVars>>

\* cacheSuccessResponse: caches.open(cacheName) settles.
CacheSuccessResponseOpen ==
    /\ \E t \in BagToSet(handlers) : \E ok \in StorageOk :
         /\ t.pc = "csr-open"
         /\ LET name == CacheNameOf(t.kind)
                r == IF ok
                     THEN [next |-> [t EXCEPT !.pc = "csr-put", !.cache = CacheOf(name)],
                           answer |-> NoAnswer]
                     ELSE AfterCacheThrow(t)
                w == IF ok THEN [Now EXCEPT !.names = CachesOpen(@, name)] ELSE Now
            IN  /\ Becomes(Continue(w, t, r.next))
                /\ swLast' = SwObs("cache-open", t.request, t.response, r.answer, {}, FALSE, {})
    /\ swReplaced' = Undefined
    /\ UNCHANGED <<swState, catVars, cartVars, pwaVars>>

\* cacheSuccessResponse: cache.put(request, response.clone()) settles, on the object
\* the call holds.
CacheSuccessResponsePut ==
    /\ \E t \in BagToSet(handlers) : \E ok \in StorageOk :
         /\ t.pc = "csr-put"
         /\ LET r == IF ok THEN AfterCacheReturn(t) ELSE AfterCacheThrow(t)
                w == IF ok THEN CacheObjectPut(Now, t.cache, t.request.path, t.response)
                     ELSE Now
            IN  /\ Becomes(Continue(w, t, r.next))
                /\ swLast' = SwObs("cache-put", t.request, t.response, r.answer,
                                   IF ok /\ t.cache.id = 0 THEN {<<t.cache.name, t.request.path>>}
                                   ELSE {},
                                   FALSE, {})
                /\ swReplaced' = IF ok /\ t.cache.id = 0
                                 THEN cacheStore[t.cache.name][t.request.path]
                                 ELSE Undefined
    /\ UNCHANGED <<swState, catVars, cartVars, pwaVars>>

\* navigationHandler's catch block: one of its caches.match calls settles.
NavigationMatch ==
    /\ \E t \in BagToSet(handlers) :
         /\ t.kind = "navigationHandler"
         /\ t.pc \in {"cachedPage", "homeFromCache", "offlinePage"}
         /\ LET r == NavigationFallback(t, CachesMatch(cacheNames, cacheStore,
                                                       FallbackKey(t.pc, t.request)))
            IN  /\ Becomes(Continue(Now, t, r.next))
                /\ swLast' = SwObs("navigation-" \o t.pc, t.request, t.response, r.answer,
                                   {}, TRUE, {})
    /\ swReplaced' = Undefined
    /\ UNCHANGED <<swState, catVars, cartVars, pwaVars>>

\* networkFirst's catch block: caches.open(RUNTIME_CACHE) settles.
NetworkFirstOpen ==
    /\ \E t \in BagToSet(handlers) : \E ok \in StorageOk :
         /\ t.kind = "networkFirst" /\ t.pc = "cache"
         /\ IF ok
            THEN /\ Becomes(Continue([Now EXCEPT !.names = CachesOpen(@, RUNTIME_CACHE)], t,
                                     [t EXCEPT !.pc = "cachedResponse",
                                               !.cache = CacheOf(RUNTIME_CACHE)]))
                 /\ swLast' = SwObs("networkFirst-cache", t.request, t.response, NoAnswer,
                                    {}, FALSE, {})
            ELSE /\ Becomes(Continue(Now, t, NoHandler))
                 /\ swLast' = SwObs("networkFirst-cache", t.request, t.response, Rejected,
                                    {}, FALSE, {})
    /\ swReplaced' = Undefined
    /\ UNCHANGED <<swState, catVars, cartVars, pwaVars>>

\* networkFirst's catch block: cache.match(request) on the object it holds, or
\* caches.match(OFFLINE_URL), settles.
NetworkFirstMatch ==
    /\ \E t \in BagToSet(handlers) :
         /\ t.kind = "networkFirst" /\ t.pc \in {"cachedResponse", "offline"}
         /\ LET found == IF t.pc = "cachedResponse"
                         THEN CacheObjectMatch(Now, t.cache, t.request.path)
                         ELSE CachesMatch(cacheNames, cacheStore, OFFLINE_URL)
                r == NetworkFirstFallback(t, found)
            IN  /\ Becomes(Continue(Now, t, r.next))
                /\ swLast' = SwObs("networkFirst-" \o t.pc, t.request, t.response, r.answer,
                                   {}, TRUE, {})
    /\ swReplaced' = Undefined
    /\ UNCHANGED <<swState, catVars, cartVars, pwaVars>>

\* The browser or the user clears the origin's cache storage (eviction, "clear site
\* data"); the worker stays registered and the objects handlers hold stay usable.
StorageCleared ==
    /\ cacheNames # << >>
    /\ Becomes(CachesDeleteAll(Now, cacheNames))
    /\ swLast' = SwObs("storage-cleared", NoRequest, Undefined, NoAnswer, {}, FALSE,
                       SeqRange(cacheNames))
    /\ swReplaced' = Undefined
    /\ UNCHANGED <<swState, catVars, cartVars, pwaVars>>

\* The worker's lifecycle: the browser's steps and the listeners for install,
\* activate and message.
SwNext ==
    \/ UpdateFound
    \/ Install
    \/ InstallAddAll
    \/ InstallSkipWaiting
    \/ WorkerActivates
    \/ Activate
    \/ ActivateDelete
    \/ ActivateClaim
    \/ PostOther
    \/ Message
    \/ StorageCleared

\* The worker activated on a fresh profile: the static partition as install filled it.
SwActivated ==
    /\ swState = "activated"
    /\ cacheNames = <<STATIC_CACHE>>
    /\ cacheStore = [n \in AllCacheNames |->
                       IF n = STATIC_CACHE THEN InstallResult(EmptyPartition, TRUE, 200)
                       ELSE EmptyPartition]
    /\ cacheDetached = << >>
    /\ handlers = EmptyBag
    /\ swListener = NoListener
    /\ swLast = SwObs("none", NoRequest, Undefined, NoAnswer, {}, FALSE, {})
    /\ swReplaced = Undefined

\* The fetch listener under each workload.
RouteNext ==
    \/ \E request \in RoutedRequests :
          \/ FetchPassthrough(request)
          \/ FetchNavigation(request)
          \/ FetchApi(request)
          \/ FetchStatic(request)
          \/ FetchNetworkFirst(request)
    \/ SwrMatch
    \/ RefreshSettle
    \/ CacheSuccessResponseOpen
    \/ CacheSuccessResponsePut
    \/ NavigationMatch
    \/ NetworkFirstOpen
    \/ NetworkFirstMatch

PagesNext ==
    \/ \E request \in PageRequests :
          \/ FetchNavigation(request)
          \/ FetchNetworkFirst(request)
    \/ CacheSuccessResponseOpen
    \/ CacheSuccessResponsePut
    \/ NavigationMatch
    \/ NetworkFirstOpen
    \/ NetworkFirstMatch
    \/ StorageCleared

ManifestPagesNext ==
    \/ \E request \in ManifestPageRequests :
          \/ FetchNavigation(request)
          \/ FetchNetworkFirst(request)
    \/ CacheSuccessResponseOpen
    \/ CacheSuccessResponsePut
    \/ NavigationMatch
    \/ NetworkFirstOpen
    \/ NetworkFirstMatch
    \/ StorageCleared

FallbackNext ==
    \/ \E request \in NavigationRequests : FetchNavigation(request)
    \/ CacheSuccessResponseOpen
    \/ CacheSuccessResponsePut
    \/ NavigationMatch
    \/ StorageCleared

StaticNext ==
    \/ \E request \in StaticRequests : FetchStatic(request)
    \/ SwrMatch
    \/ RefreshSettle
    \/ CacheSuccessResponseOpen
    \/ CacheSuccessResponsePut
    \/ StorageCleared

(***************************************************************************)
(*                      CATALOG DATA LAYER                                 *)
(***************************************************************************)

\* Bounds of the catalog model.
CatalogSize == 17       \* products the server holds (ids 1..CatalogSize)
MaxPendingSaves == 2    \* saveSnapshot callbacks scheduled and not yet run

\* getProductPageSize(): thresholds on window.innerWidth and the page sizes.
WidthSmall == 460
WidthMedium == 760
WidthLarge == 1180
PageSmall == 8
PageMedium == 12
PageLarge == 16
PageHuge == 24

GetProductPageSize(width) ==
    IF width <= WidthSmall THEN PageSmall
    ELSE IF width <= WidthMedium THEN PageMedium
    ELSE IF width <= WidthLarge THEN PageLarge
    ELSE PageHuge

\* Viewport widths the environment offers (each side of a threshold).
Widths == {WidthSmall, WidthSmall + 1}

\* The server's catalog (external): product ids in order; every eighth product from
\* the first is in category "Serum", every sixth matches the query "rose".
Queries == {"", "rose"}
Categories == {"all", "Serum"}
SearchInputs == {"", "rose", " rose "}
Trim(text) == IF text = " rose " THEN "rose" ELSE text

CategoryOf(item) == IF item % 8 = 1 THEN "Serum" ELSE "General"

MatchesFilter(item, q, category) ==
    /\ (q = "" \/ item % 6 = 0)
    /\ (category = "all" \/ CategoryOf(item) = category)

ServerCatalog(q, category) ==
    SelectSeq([i \in 1..CatalogSize |-> i], LAMBDA item : MatchesFilter(item, q, category))

\* JSON.stringify / JSON.parse of a local-storage value.
JsonStringify(value) == [json |-> value]
JsonParse(text) == text.json
NoItem == [present |-> FALSE, text |-> JsonStringify(<< >>)]
Item(value) == [present |-> TRUE, text |-> JsonStringify(value)]

\* History of the lists that successful loads ended with, kept as three facts: is
\* this.products such a list, is the empty list one, is the stored snapshot one.
NoneCompleted == [list |-> FALSE, empty |-> FALSE, snapshot |-> FALSE]
AfterSuccess(h, list, snapshot) ==
    [list |-> TRUE,
     empty |-> h.empty \/ list = << >>,
     snapshot |-> h.snapshot \/ (snapshot.present /\ JsonParse(snapshot.text) = list)]
AfterClear(h) == [h EXCEPT !.list = h.empty]
AfterRehydrate(h) == [h EXCEPT !.list = h.snapshot]
AfterStore(h) == [h EXCEPT !.snapshot = h.list]

NoCatalogRequest ==
    [offset |-> 0, limit |-> 0, q |-> "", category |-> "", reset |-> FALSE,
     silent |-> FALSE, afterChange |-> FALSE]

CatObs(op, called, reset, issued, outcome) ==
    [op |-> op, called |-> called, reset |-> reset, issued |-> issued, outcome |-> outcome]

\* loadProducts({reset, silent}) up to `await fetch(...)`: the two guards, the
\* flag, the cursor reset and the request built from the cursor and the filter.
\* q and category are the filter at the moment of the call.
LoadProductsGuarded_ResetBypassesFlag(reset) ==
    (~reset /\ isFetchingProducts) \/ (~reset /\ ~hasMoreProducts)

\* Mutant of LoadProductsGuarded: the hasMoreProducts test is lost.
LoadProductsGuarded_IgnoresHasMore(reset) ==
    isFetchingProducts

LoadProductsGuarded(reset) ==
    isFetchingProducts \/ (~reset /\ ~hasMoreProducts)

LoadProductsRequest(reset, silent, q, category, changed) ==
    [offset |-> IF reset THEN 0 ELSE nextOffset,
     limit |-> productPageSize,
     q |-> Trim(q),
     category |-> category,
     reset |-> reset, silent |-> silent, afterChange |-> changed]

LoadProductsCall(op, reset, silent, q, category, changed) ==
    IF LoadProductsGuarded(reset)
    THEN /\ UNCHANGED <<products, nextOffset, hasMoreProducts, isFetchingProducts,
                        catalogFetch, pagesSinceReset, completedLists>>
         /\ filterChanged' = changed
         /\ catLast' = CatObs(op, TRUE, reset, FALSE, "dropped")
    ELSE /\ isFetchingProducts' = TRUE
         /\ nextOffset' = IF reset THEN 0 ELSE nextOffset
         /\ hasMoreProducts' = IF reset THEN TRUE ELSE hasMoreProducts
         /\ products' = IF reset THEN << >> ELSE products
         /\ catalogFetch' = Append(catalogFetch,
                                   LoadProductsRequest(reset, silent, q, category, changed))
         /\ pagesSinceReset' = IF reset THEN [resetOk |-> FALSE, items |-> << >>, count |-> 0]
                               ELSE pagesSinceReset
         /\ filterChanged' = FALSE
         /\ completedLists' = IF reset THEN AfterClear(completedLists) ELSE completedLists
         /\ catLast' = CatObs(op, TRUE, reset, TRUE, "issued")

\* renderCategories(): the categories that get a button.  this.categories is the
\* server's answer, or on failure the categories of the products loaded so far.
RenderCategories(ok, list) ==
    IF ok THEN {CategoryOf(item) : item \in 1..CatalogSize}
    ELSE {CategoryOf(list[i]) : i \in DOMAIN list}

\* init() awaits the promises of loadCategories(), loadProducts({reset: true}) and
\* loadCart() together.  When the last of them settles, the rest of init() runs in
\* the same turn of the event loop, before any other event: bindEvents() and the
\* set-up calls after it (bottom navigation, scroll sentinel, resize listener,
\* keyboard shortcuts, totals listeners).
NotStarted ==
    [categories |-> "pending", buttons |-> {}, load |-> "pending", cart |-> "pending",
     events |-> FALSE]

BindEvents(init) ==
    IF init.categories = "done" /\ init.load = "done" /\ init.cart = "done"
    THEN [init EXCEPT !.events = TRUE]
    ELSE init

\* State after the constructor and the synchronous part of init(): loadCategories
\* and loadProducts({reset: true}) have both issued their requests.
CatStarted(init) ==
    /\ products = << >>
    /\ catalogTotalCount = 0
    /\ currentQuery = ""
    /\ currentCategory = "all"
    /\ nextOffset = 0
    /\ hasMoreProducts = TRUE
    /\ isFetchingProducts = TRUE
    /\ \E width \in Widths :
         /\ productPageSize = GetProductPageSize(width)
         /\ catalogFetch = << [offset |-> 0, limit |-> GetProductPageSize(width), q |-> "",
                               category |-> "all", reset |-> TRUE, silent |-> FALSE,
                               afterChange |-> FALSE] >>
    /\ catalogInit = init
    /\ pendingSaves = 0
    /\ cachedProducts \in {NoItem, Item(<<1, 2, 3>>)}
    /\ catLast = CatObs("init", TRUE, TRUE, TRUE, "issued")
    /\ pagesSinceReset = [resetOk |-> FALSE, items |-> << >>, count |-> 0]
    /\ completedLists = NoneCompleted
    /\ filterChanged = FALSE

CatInit == CatStarted(NotStarted)

\* The same once GET /api/cart has settled, the first of the three calls to do so.
CatInitAfterCart == CatStarted([NotStarted EXCEPT !.cart = "done"])

\* The catalog once loadCategories and the first load have succeeded on a narrow
\* screen and the snapshot is written, GET /api/cart still outstanding.
CatLoaded ==
    /\ products = <<1, 2, 3, 4, 5, 6, 7, 8>>
    /\ catalogTotalCount = CatalogSize
    /\ currentQuery = ""
    /\ currentCategory = "all"
    /\ nextOffset = PageSmall
    /\ hasMoreProducts = TRUE
    /\ isFetchingProducts = FALSE
    /\ productPageSize = PageSmall
    /\ catalogFetch = << >>
    /\ catalogInit = [NotStarted EXCEPT !.categories = "done", !.load = "done",
                                        !.buttons = RenderCategories(TRUE, << >>)]
    /\ pendingSaves = 0
    /\ cachedProducts = Item(<<1, 2, 3, 4, 5, 6, 7, 8>>)
    /\ catLast = CatObs("loadCategories", FALSE, FALSE, FALSE, "success")
    /\ pagesSinceReset = [resetOk |-> TRUE, items |-> <<1, 2, 3, 4, 5, 6, 7, 8>>, count |-> 8]
    /\ completedLists = [list |-> TRUE, empty |-> FALSE, snapshot |-> TRUE]
    /\ filterChanged = FALSE

CatUnchangedData ==
    UNCHANGED <<catalogTotalCount, productPageSize, catalogInit, pendingSaves, cachedProducts>>

\* searchProducts(), reached from the debounced input handler (non-blank value) and
\* from Enter; the input handler's blank branch assigns '' and reloads likewise.
SearchProducts ==
    /\ catalogInit.events
    /\ \E input \in SearchInputs :
         /\ currentQuery' = Trim(input)
         /\ LoadProductsCall("search", TRUE, TRUE, Trim(input), currentCategory,
                             filterChanged \/ Trim(input) # currentQuery)
    /\ UNCHANGED currentCategory
    /\ CatUnchangedData
    /\ UNCHANGED <<swVars, cartVars, pwaVars>>

\* filterByCategory(category) from a category button: renderCategories made the
\* buttons and put the listener on each.
FilterByCategory ==
    /\ catalogInit.categories = "done"
    /\ \E category \in Categories \cap catalogInit.buttons :
         /\ currentCategory' = category
         /\ LoadProductsCall("category", TRUE, TRUE, currentQuery, category,
                             filterChanged \/ category # currentCategory)
    /\ UNCHANGED currentQuery
    /\ CatUnchangedData
    /\ UNCHANGED <<swVars, cartVars, pwaVars>>

\* The "All Products" button of renderCategories.
AllProducts ==
    /\ catalogInit.categories = "done"
    /\ currentCategory' = "all"
    /\ currentQuery' = ""
    /\ LoadProductsCall("all", TRUE, TRUE, "", "all",
                        filterChanged \/ currentQuery # "" \/ currentCategory # "all")
    /\ CatUnchangedData
    /\ UNCHANGED <<swVars, cartVars, pwaVars>>

\* handleBottomNavAction('home'): reloads only when a filter is active.
HomeAction ==
    /\ catalogInit.events
    /\ IF currentQuery # "" \/ currentCategory # "all"
       THEN /\ currentQuery' = ""
            /\ currentCategory' = "all"
            /\ LoadProductsCall("home", TRUE, TRUE, "", "all", TRUE)
       ELSE /\ UNCHANGED <<currentQuery, currentCategory, products, nextOffset,
                           hasMoreProducts, isFetchingProducts, catalogFetch,
                           pagesSinceReset, completedLists, filterChanged>>
            /\ catLast' = CatObs("home", FALSE, FALSE, FALSE, "none")
    /\ CatUnchangedData
    /\ UNCHANGED <<swVars, cartVars, pwaVars>>

\* The IntersectionObserver callback on the load anchor.
ObserverVisible ==
    /\ catalogInit.events
    /\ LoadProductsCall("observer", FALSE, TRUE, currentQuery, currentCategory, filterChanged)
    /\ UNCHANGED <<currentQuery, currentCategory>>
    /\ CatUnchangedData
    /\ UNCHANGED <<swVars, cartVars, pwaVars>>

\* The resize listener.
Resize ==
    /\ catalogInit.events
    /\ \E width \in Widths : productPageSize' = GetProductPageSize(width)
    /\ catLast' = CatObs("resize", FALSE, FALSE, FALSE, "none")
    /\ UNCHANGED <<products, catalogTotalCount, currentQuery, currentCategory, nextOffset,
                   hasMoreProducts, isFetchingProducts, catalogInit, catalogFetch,
                   pendingSaves, cachedProducts, pagesSinceReset, completedLists, filterChanged>>
    /\ UNCHANGED <<swVars, cartVars, pwaVars>>

\* ---- the server's answer to GET /api/products/lazy ----
\* The server sends the items from offset on, up to limit of them.
ServerPageCount(request) ==
    Min(request.limit,
        Max(0, Len(ServerCatalog(request.q, request.category)) - request.offset))

ServerPage(request, k) ==
    LET catalog == ServerCatalog(request.q, request.category)
    IN  [items |-> SubSeq(catalog, request.offset + 1, request.offset + k),
         total |-> Len(catalog),
         has_more |-> request.offset + k < Len(catalog)]

\* The cursor advance of a successful load.
AdvanceOffset_ByLimit(offset, incoming, limit) == offset + limit

AdvanceOffset(offset, incoming, limit) == offset + Len(incoming)

\* Mutant of MergeProducts: an incremental page replaces the list.
MergeProducts_AlwaysReplaces(reset, current, incoming) == incoming

\* Mutant of MergeProducts: a response for a filter that is no longer current is
\* discarded.
MergeProducts_DiscardsStale(reset, current, incoming) ==
    IF Head(catalogFetch).q # currentQuery \/ Head(catalogFetch).category # currentCategory
    THEN current
    ELSE IF reset THEN incoming ELSE current \o incoming

\* this.products = reset ? incoming : this.products.concat(incoming)
MergeProducts(reset, current, incoming) ==
    IF reset THEN incoming ELSE current \o incoming

\* persistProductsToCache(): one more saveSnapshot callback is scheduled.
SchedulePersist(n) == n + 1

\* What `await fetch(...)` and `await response.json()` give a load: the fetch
\* rejects, or resolves with a response that is ok or not, its payload with an items
\* array or without.
CatalogReply(rejected, ok, hasItems) ==
    [rejected |-> rejected, ok |-> ok, hasItems |-> hasItems]
CatalogReplies ==
    {CatalogReply(TRUE, FALSE, FALSE), CatalogReply(FALSE, FALSE, TRUE),
     CatalogReply(FALSE, TRUE, FALSE), CatalogReply(FALSE, TRUE, TRUE)}

\* The load enters its catch block.
LoadProductsThrows(reply) ==
    reply.rejected \/ ~reply.ok \/ ~reply.hasItems

\* Mutant of FlagAfterSettle: the flag is cleared on the success path only.
FlagAfterSettle_SuccessOnly(outcome) == outcome # "success"

\* The finally block: this.isFetchingProducts = false, whatever the outcome.
FlagAfterSettle(outcome) == FALSE

\* The awaited fetch resolves with an ok response carrying an items array; one more
\* saveSnapshot callback is scheduled (at most MaxPendingSaves wait at a time).
\* init() goes on when this was the last of its three calls to settle.
LoadProductsSuccess ==
    /\ catalogFetch # << >>
    /\ pendingSaves < MaxPendingSaves
    /\ ~LoadProductsThrows(CatalogReply(FALSE, TRUE, TRUE))
    /\ LET request == Head(catalogFetch)
       IN  LET k == ServerPageCount(request)
                 payload == ServerPage(request, k)
                 incoming == payload.items
             IN  /\ catalogTotalCount' = payload.total
                 /\ hasMoreProducts' = payload.has_more
                 /\ nextOffset' = AdvanceOffset(nextOffset, incoming, request.limit)
                 /\ products' = MergeProducts(request.reset, products, incoming)
                 /\ pagesSinceReset' =
                        [resetOk |-> request.reset \/ pagesSinceReset.resetOk,
                         items |-> pagesSinceReset.items \o incoming,
                         count |-> pagesSinceReset.count + k]
                 /\ completedLists' =
                        AfterSuccess(completedLists,
                                     MergeProducts(request.reset, products, incoming),
                                     cachedProducts)
                 /\ catLast' = CatObs("settle", FALSE, request.reset, FALSE, "success")
    /\ pendingSaves' = SchedulePersist(pendingSaves)
    /\ catalogFetch' = Tail(catalogFetch)
    /\ isFetchingProducts' = FlagAfterSettle("success")
    /\ catalogInit' = BindEvents([catalogInit EXCEPT !.load = "done"])
    /\ UNCHANGED <<currentQuery, currentCategory, productPageSize,
                   cachedProducts, filterChanged>>
    /\ UNCHANGED <<swVars, cartVars, pwaVars>>

\* Mutant of LoadProductsCatch: a rehydrated list keeps its pagination.
LoadProductsCatch_RehydrateKeepsPaging(reset, snapshot, current, total, hasMore) ==
    IF reset /\ snapshot.present
    THEN [products |-> JsonParse(snapshot.text), total |-> Len(JsonParse(snapshot.text)),
          hasMore |-> hasMore, outcome |-> "rehydrated"]
    ELSE [products |-> current, total |-> total, hasMore |-> reset /\ hasMore,
          outcome |-> "error"]

\* Mutant of LoadProductsCatch: a failed incremental load rehydrates too.
LoadProductsCatch_IncrementalRehydrates(reset, snapshot, current, total, hasMore) ==
    IF snapshot.present
    THEN [products |-> JsonParse(snapshot.text), total |-> Len(JsonParse(snapshot.text)),
          hasMore |-> FALSE, outcome |-> IF reset THEN "rehydrated" ELSE "error"]
    ELSE [products |-> current, total |-> total, hasMore |-> reset /\ hasMore,
          outcome |-> "error"]

\* The catch block of loadProducts: what it leaves in products, catalogTotalCount
\* and hasMoreProducts.
LoadProductsCatch(reset, snapshot, current, total, hasMore) ==
    IF reset
    THEN IF snapshot.present
         THEN [products |-> JsonParse(snapshot.text),
               total |-> Len(JsonParse(snapshot.text)),
               hasMore |-> FALSE, outcome |-> "rehydrated"]
         ELSE [products |-> current, total |-> total, hasMore |-> hasMore,
               outcome |-> "error"]
    ELSE [products |-> current, total |-> total, hasMore |-> FALSE, outcome |-> "error"]

\* The fetch rejects, or resolves non-ok or without an items array: the catch block
\* and the finally block.
LoadProductsFailure ==
    /\ catalogFetch # << >>
    /\ \E reply \in CatalogReplies : LoadProductsThrows(reply)
    /\ LET request == Head(catalogFetch)
           r == LoadProductsCatch(request.reset, cachedProducts, products,
                                  catalogTotalCount, hasMoreProducts)
       IN  /\ products' = r.products
           /\ catalogTotalCount' = r.total
           /\ hasMoreProducts' = r.hasMore
           /\ catLast' = CatObs("settle", FALSE, request.reset, FALSE, r.outcome)
           /\ isFetchingProducts' = FlagAfterSettle(r.outcome)
    /\ catalogFetch' = Tail(catalogFetch)
    /\ completedLists' = IF Head(catalogFetch).reset /\ cachedProducts.present
                          THEN AfterRehydrate(completedLists) ELSE completedLists
    /\ catalogInit' = BindEvents([catalogInit EXCEPT !.load = "done"])
    /\ UNCHANGED <<currentQuery, currentCategory, nextOffset, productPageSize,
                   pendingSaves, cachedProducts, pagesSinceReset, filterChanged>>
    /\ UNCHANGED <<swVars, cartVars, pwaVars>>

\* A scheduled saveSnapshot runs: it stores this.products as it is now; a throwing
\* setItem is caught and only warned about.
SaveSnapshot ==
    /\ pendingSaves > 0
    /\ pendingSaves' = pendingSaves - 1
    /\ \E storageOk \in BOOLEAN :
         /\ cachedProducts' = IF storageOk THEN Item(products) ELSE cachedProducts
         /\ completedLists' = IF storageOk THEN AfterStore(completedLists)
                              ELSE completedLists
         /\ catLast' = CatObs("saveSnapshot", FALSE, FALSE, FALSE,
                              IF storageOk THEN "stored" ELSE "storage-failed")
    /\ UNCHANGED <<products, catalogTotalCount, currentQuery, currentCategory, nextOffset,
                   hasMoreProducts, isFetchingProducts, productPageSize, catalogInit,
                   catalogFetch, pagesSinceReset, filterChanged>>
    /\ UNCHANGED <<swVars, cartVars, pwaVars>>

\* loadCategories() settles: the sum of the server's category counts, or on failure
\* the count of the products loaded so far; renderCategories() makes the buttons.
LoadCategoriesSettle ==
    /\ catalogInit.categories = "pending"
    /\ \E ok \in BOOLEAN :
         /\ catalogInit' = BindEvents([catalogInit EXCEPT
                                          !.categories = "done",
                                          !.buttons = RenderCategories(ok, products)])
         /\ catalogTotalCount' = IF ok THEN CatalogSize ELSE Len(products)
         /\ catLast' = CatObs("loadCategories", FALSE, FALSE, FALSE,
                              IF ok THEN "success" ELSE "error")
    /\ UNCHANGED <<products, currentQuery, currentCategory, nextOffset, hasMoreProducts,
                   isFetchingProducts, productPageSize, catalogFetch, pendingSaves,
                   cachedProducts, pagesSinceReset, completedLists, filterChanged>>
    /\ UNCHANGED <<swVars, cartVars, pwaVars>>

(***************************************************************************)
(*                        CART AND CHECKOUT                                *)
(***************************************************************************)

\* Bounds of the cart model.
MaxCartOps == 1         \* cart operations in flight at once (loadCart included)
MaxQuantity == 2        \* largest quantity of the product the server lets in a cart

\* The server's price list (external): the one product costs 25.00.
UnitPrice(product_id) == 2500

\* The server's serialization of its cart: one item per product with quantity > 0.
\* total_price is a JSON number, written here in hundredths.
CartItem(quantity) ==
    [product_id |-> 1, quantity |-> quantity, total_price |-> quantity * UnitPrice(1)]
CartArray(quantity) == IF quantity = 0 THEN << >> ELSE << CartItem(quantity) >>

\* ---- JavaScript numbers ----
\* A Number of the checkout arithmetic is an IEEE-754 double.  Every double between
\* 2^-8 and 2^20 in magnitude is a whole multiple of 2^-60; the model keeps the
\* magnitude as that multiple, written in four digits of 20 bits, lowest first: the
\* fourth digit is the integer part, the other three are the 60 fraction bits.
Digit == 2 ^ 20
MagZero == <<0, 0, 0, 0>>
Double(neg, mag) == [neg |-> neg /\ mag # MagZero, mag |-> mag]
DoubleZero == Double(FALSE, MagZero)

MagAdd(a, b) ==
    LET s1 == a[1] + b[1]
        s2 == a[2] + b[2] + (s1 \div Digit)
        s3 == a[3] + b[3] + (s2 \div Digit)
        s4 == a[4] + b[4] + (s3 \div Digit)
    IN  <<s1 % Digit, s2 % Digit, s3 % Digit, s4>>

\* a - b for a >= b.
MagSub(a, b) ==
    LET d1 == Digit + a[1] - b[1]
        d2 == Digit + a[2] - b[2] - (IF d1 < Digit THEN 1 ELSE 0)
        d3 == Digit + a[3] - b[3] - (IF d2 < Digit THEN 1 ELSE 0)
        d4 == a[4] - b[4] - (IF d3 < Digit THEN 1 ELSE 0)
    IN  <<d1 % Digit, d2 % Digit, d3 % Digit, d4>>

MagLess(a, b) ==
    \E i \in 1..4 : a[i] < b[i] /\ \A j \in (i + 1)..4 : a[j] = b[j]

\* Number of significant bits of a magnitude.
BitLength(n) == Cardinality({k \in 0..30 : 2^k <= n})
MagBits(a) ==
    IF a[4] > 0 THEN 60 + BitLength(a[4])
    ELSE IF a[3] > 0 THEN 40 + BitLength(a[3])
    ELSE IF a[2] > 0 THEN 20 + BitLength(a[2])
    ELSE BitLength(a[1])

\* Rounding of an exact result to the 53 significant bits of a double, to nearest,
\* ties to even.  inexact: the exact result lies above the magnitude given, by less
\* than one unit of its last digit.
RoundToDouble(a, inexact) ==
    LET drop == MagBits(a) - 53
    IN  IF drop <= 0 THEN a
        ELSE LET low1 == a[1] % (2 ^ Min(drop, 20))
                 low2 == a[2] % (2 ^ Max(drop - 20, 0))
                 rest == low1 + low2 * Digit
                 half == 2 ^ (drop - 1)
                 kept == <<a[1] - low1, a[2] - low2, a[3], a[4]>>
                 odd == IF drop < 20 THEN (a[1] \div (2 ^ drop)) % 2 = 1
                        ELSE (a[2] \div (2 ^ (drop - 20))) % 2 = 1
                 unit == IF drop < 20 THEN <<2 ^ drop, 0, 0, 0>>
                         ELSE <<0, 2 ^ (drop - 20), 0, 0>>
             IN  IF rest > half \/ (rest = half /\ (inexact \/ odd))
                 THEN MagAdd(kept, unit)
                 ELSE kept

\* x + y and x - y of two Numbers.
DoubleAdd(x, y) ==
    IF x.neg = y.neg THEN Double(x.neg, RoundToDouble(MagAdd(x.mag, y.mag), FALSE))
    ELSE IF MagLess(x.mag, y.mag)
    THEN Double(y.neg, RoundToDouble(MagSub(y.mag, x.mag), FALSE))
    ELSE Double(x.neg, RoundToDouble(MagSub(x.mag, y.mag), FALSE))
DoubleSub(x, y) == DoubleAdd(x, Double(~y.neg, y.mag))

\* x < y, x > y, Math.max(x, y), Math.abs(x).
DoubleLess(x, y) ==
    IF x.neg # y.neg THEN x.neg
    ELSE IF x.neg THEN MagLess(y.mag, x.mag)
    ELSE MagLess(x.mag, y.mag)
DoubleMax(x, y) == IF DoubleLess(x, y) THEN y ELSE x

\* The Number a decimal literal of two places denotes (the literal given in
\* hundredths): the double nearest to cents / 100.
NumberOfCents(cents) ==
    LET q4 == cents \div 100
        r4 == cents % 100
        q3 == (r4 * Digit) \div 100
        r3 == (r4 * Digit) % 100
        q2 == (r3 * Digit) \div 100
        r2 == (r3 * Digit) % 100
        q1 == (r2 * Digit) \div 100
        r1 == (r2 * Digit) % 100
    IN  Double(FALSE, RoundToDouble(<<q1, q2, q3, q4>>, r1 > 0))

\* Number.prototype.toFixed(2): the integer n for which n / 100 is nearest to the
\* magnitude, the larger one of two.
HundredthsNearest(x) ==
    LET p1 == x.mag[1] * 100
        p2 == x.mag[2] * 100 + (p1 \div Digit)
        p3 == x.mag[3] * 100 + (p2 \div Digit)
        p4 == x.mag[4] * 100 + (p3 \div Digit)
    IN  p4 + (IF p3 % Digit >= Digit \div 2 THEN 1 ELSE 0)

\* Text of an input field or a text node holding money: blank, or a decimal
\* numeral of two places (its digits kept as hundredths).
BlankText == [kind |-> "blank", neg |-> FALSE, cents |-> 0]
DecimalText(cents) == [kind |-> "decimal", neg |-> FALSE, cents |-> cents]

\* x.toFixed(2)
ToFixed2(x) == [kind |-> "decimal", neg |-> x.neg, cents |-> HundredthsNearest(x)]

\* parseFloat(text) || 0
ParseFloatOrZero(text) ==
    IF text.kind = "decimal" /\ text.cents # 0
    THEN Double(text.neg, NumberOfCents(text.cents).mag)
    ELSE DoubleZero

\* The checkout form as the user may have filled it.
Form(discount, delivery, received, method) ==
    [discount |-> discount, delivery |-> delivery, received |-> received, method |-> method]
NoForm == Form(BlankText, BlankText, BlankText, "")
Forms ==
    { Form(DecimalText(500), DecimalText(300), DecimalText(4000), "Cash"),
      Form(DecimalText(500), DecimalText(300), DecimalText(4800), "Cash"),
      Form(DecimalText(500), DecimalText(300), DecimalText(4000), "Card"),
      Form(DecimalText(9000), BlankText, BlankText, "Cash"),
      Form(BlankText, BlankText, DecimalText(6000), "Cash"),
      Form(BlankText, DecimalText(224), DecimalText(2724), "Cash"),
      Form(DecimalText(10), DecimalText(20), DecimalText(2510), "Cash") }

\* updateTotals(): finalTotal of the live totals display.
UpdateTotalsTotal(subtotal, discount, delivery) ==
    DoubleMax(DoubleZero, DoubleAdd(DoubleSub(subtotal, discount), delivery))

\* checkout(): finalTotal.
CheckoutTotal(subtotal, discount, delivery) ==
    DoubleMax(DoubleZero, DoubleAdd(DoubleSub(subtotal, discount), delivery))

\* checkout(): the client-side cash check.
CheckoutRejectsCash_IgnoresMethod(method, received, total) ==
    DoubleLess(received, total)

CheckoutRejectsCash(method, received, total) ==
    method = "Cash" /\ DoubleLess(received, total)

\* renderCart(): the lines it writes, each with the quantity its buttons carry, and
\* the subtotal text.
RenderCartLines(items) ==
    [i \in DOMAIN items |->
        [product_id |-> items[i].product_id, quantity |-> items[i].quantity]]
RECURSIVE SumTotalPrice(_, _)
SumTotalPrice(total, items) ==
    IF items = << >> THEN total
    ELSE SumTotalPrice(DoubleAdd(total, NumberOfCents(Head(items).total_price)), Tail(items))
RenderCartSubtotal(items) == ToFixed2(SumTotalPrice(DoubleZero, items))

NoOrder == [present |-> FALSE, subtotal |-> DoubleZero, discount_amount |-> DoubleZero,
            delivery_fee |-> DoubleZero, total |-> DoubleZero, items |-> << >>,
            payment_method |-> "", amount_received |-> DoubleZero, change |-> DoubleZero]

NoReply == [outcome |-> "none", hasCart |-> FALSE, cart |-> << >>]

\* The operations in flight form a bag: requests and responses overtake each other.
With(ops, op) == ops (+) SetToBag({op})
Without(ops, op) == ops (-) SetToBag({op})

\* A cart operation between its fetch call and its last statement.
\*   phase "sent"      the request is on its way to the server
\*   phase "replied"   the response is on its way back
\*   phase "reloading" the operation awaits loadCart(), whose GET /api/cart is on
\*                     its way to the server
\*   phase "reloaded"  the response of that GET is on its way back
CartOp(kind, quantity, phase, reply, form, subtotal, total) ==
    [kind |-> kind, quantity |-> quantity, phase |-> phase, reply |-> reply, form |-> form,
     subtotal |-> subtotal, total |-> total]

CartObs(op, outcome, notification, escaped, issued, form, subtotal, total) ==
    [op |-> op, outcome |-> outcome, notification |-> notification, escaped |-> escaped,
     issued |-> issued, form |-> form, subtotal |-> subtotal, total |-> total]

\* The success path of a cart mutation from the assignment of this.cart on:
\* updateCartCount, renderCart (not in addToCart), saveCartToStorage, notification.
\* A throwing setItem lands in the operation's catch block.
MutationDone(kind, storageNow, newCart, storageOk) ==
    [cart |-> newCart,
     storage |-> IF storageOk THEN Item(newCart) ELSE storageNow,
     rendered |-> kind # "add",
     notification |-> IF ~storageOk THEN "error"
                      ELSE IF kind = "update" THEN "none" ELSE "success",
     escaped |-> FALSE]

\* The failure paths of a cart mutation: the response does not report success, or
\* the fetch (or response.json()) throws into the catch block.
MutationFailed_DropsCart(kind, cartNow, storageNow) ==
    [cart |-> << >>, storage |-> storageNow, rendered |-> FALSE,
     notification |-> "error", escaped |-> FALSE]

MutationFailed(kind, cartNow, storageNow) ==
    [cart |-> cartNow, storage |-> storageNow, rendered |-> FALSE,
     notification |-> "error", escaped |-> FALSE]

\* What `await fetch('/api/cart')` gives loadCart():
\*   "ok"           a 200 response with the cart the server held when it handled
\*                  the request
\*   "notOk"        a response with an error status from the server
\*   "proxyOffline" the server is unreachable and the page is controlled by the
\*                  service worker: the response its /api/ branch synthesizes
\*   "rejected"     the server is unreachable and no worker answers: fetch rejects
LoadCartOutcomes == {"ok", "notOk", "proxyOffline", "rejected"}
CartRequest == Request("GET", "self", "cors", API_CART_URL)
LoadCartResponse(outcome) ==
    IF outcome = "ok" THEN Basic(API_CART_URL, 200, "network")
    ELSE IF outcome = "notOk" THEN Basic(API_CART_URL, 404, "network")
    ELSE IF outcome = "proxyOffline"
    THEN ApiFetch(CartRequest, Rejected)
    ELSE Rejected

\* response.ok
ResponseOk(response) == response.status \in 200..299

\* loadCart(): the cart it leaves, by the outcome of GET /api/cart; body is the
\* list a 200 response carries.
LoadCartResult(cartNow, outcome, body, storage) ==
    LET response == LoadCartResponse(outcome)
    IN  IF response = Rejected
        THEN IF storage.present THEN JsonParse(storage.text) ELSE cartNow
        ELSE IF ResponseOk(response) THEN body
        ELSE cartNow

\* Where this.cart comes from after loadCart(): "server" a response's list,
\* "snapshot" the local-storage fallback, otherwise what it was ("constructor" the
\* [] of the constructor, "empty" the [] assigned by clearCart or checkout).
LoadCartOrigin(originNow, outcome, storage) ==
    LET response == LoadCartResponse(outcome)
    IN  IF response = Rejected
        THEN IF storage.present THEN "snapshot" ELSE originNow
        ELSE IF ResponseOk(response) THEN "server"
        ELSE originNow

\* Where this.cart comes from after the response of a cart mutation was read.
MutationOrigin(originNow, kind, reply) ==
    IF reply.outcome # "success" THEN originNow
    ELSE IF reply.hasCart THEN "server"
    ELSE IF kind = "clear" THEN "empty"
    ELSE originNow

\* The server's handling of a cart request (external).
ServerEffect(kind, quantity, server) ==
    IF kind = "add" THEN Min(MaxQuantity, server + quantity)
    ELSE IF kind = "update" THEN quantity
    ELSE 0

MutationKinds == {"add", "update", "remove", "clear"}

\* State after the constructor and the synchronous part of init(): loadCart() has
\* issued GET /api/cart.  The stored snapshot and the server's session cart are
\* whatever an earlier visit left; the cart panel shows no line yet.
CartInit ==
    /\ cart = << >>
    /\ cartOrigin = "constructor"
    /\ cartRun = "none"
    /\ lastOrder = NoOrder
    /\ cartStorage \in {NoItem, Item(CartArray(1))}
    /\ serverCart \in {0, MaxQuantity}
    /\ cartOps = SetToBag({CartOp("loadCart", 0, "reloading", NoReply, NoForm,
                                  DoubleZero, DoubleZero)})
    /\ cartItems = << >>
    /\ checkoutSubtotal = DecimalText(0)
    /\ cartLast = CartObs("init", "none", "none", FALSE, TRUE, NoForm, DoubleZero, DoubleZero)

\* The same on a first visit: no snapshot, and the server's session cart is empty.
CartFirstVisit ==
    /\ CartInit
    /\ cartStorage = NoItem
    /\ serverCart = 0

\* The cart once that GET has been answered with the empty cart.
CartLoaded ==
    /\ cart = << >>
    /\ cartOrigin = "server"
    /\ cartRun = "none"
    /\ lastOrder = NoOrder
    /\ cartStorage = NoItem
    /\ serverCart = 0
    /\ cartOps = EmptyBag
    /\ cartItems = << >>
    /\ checkoutSubtotal = DecimalText(0)
    /\ cartLast = CartObs("loadCart", "ok", "none", FALSE, FALSE, NoForm, DoubleZero, DoubleZero)

CartIdle ==
    /\ cart = << >>
    /\ cartOrigin = "constructor"
    /\ cartRun = "none"
    /\ lastOrder = NoOrder
    /\ cartStorage = NoItem
    /\ serverCart = 0
    /\ cartOps = EmptyBag
    /\ cartItems = << >>
    /\ checkoutSubtotal = DecimalText(0)
    /\ cartLast = CartObs("none", "none", "none", FALSE, FALSE, NoForm, DoubleZero, DoubleZero)

\* The history of the mutations in flight together.  A call with no other mutation
\* in flight starts a new run; a mutation fails when the server refuses it, its
\* fetch or its cart re-fetch does not deliver, or its snapshot write throws.
MutationsInFlight(ops) == {op \in BagToSet(ops) : op.kind \in MutationKinds}
RunAfterCall(run, ops) ==
    IF MutationsInFlight(ops) = {} THEN "single"
    ELSE IF run = "broken" THEN "broken"
    ELSE "overlap"
RunAfterEnd(run, delivered, outcome, notification) ==
    IF delivered /\ outcome = "done" /\ notification # "error" THEN run ELSE "broken"

\* A cart mutation up to its `await fetch(...)`: nothing but the request.
MutationCall(kind, quantity) ==
    /\ cartOps' = With(cartOps, CartOp(kind, quantity, "sent", NoReply, NoForm,
                                       DoubleZero, DoubleZero))
    /\ cartLast' = CartObs(kind, "called", "none", FALSE, TRUE, NoForm, DoubleZero, DoubleZero)
    /\ cartRun' = RunAfterCall(cartRun, cartOps)
    /\ UNCHANGED <<cart, cartOrigin, lastOrder, cartStorage, serverCart, cartItems,
                   checkoutSubtotal>>
    /\ UNCHANGED <<swVars, catVars, pwaVars>>

\* A product card is in the grid (renderProducts), or the search box takes a
\* barcode (bindEvents).
CanAddToCart == products # << >> \/ catalogInit.events

\* addToCart(productId, button): the quantity of the card's quantity input.
AddToCart ==
    /\ CanAddToCart
    /\ BagCardinality(cartOps) < MaxCartOps
    /\ \E quantity \in {1, MaxQuantity} : MutationCall("add", quantity)

\* updateCartQuantity(productId, newQuantity) from the - and + buttons of a cart
\* line, with the quantity renderCart wrote into the button; a newQuantity <= 0
\* becomes removeFromCart(productId).
UpdateCartQuantity ==
    /\ cartItems # << >>
    /\ BagCardinality(cartOps) < MaxCartOps
    /\ \E newQuantity \in {cartItems[1].quantity - 1, cartItems[1].quantity + 1} :
         /\ newQuantity <= MaxQuantity
         /\ IF newQuantity <= 0
            THEN MutationCall("remove", 0)
            ELSE MutationCall("update", newQuantity)

\* removeFromCart(productId) from the remove button of a cart line.
RemoveFromCart ==
    /\ cartItems # << >>
    /\ BagCardinality(cartOps) < MaxCartOps
    /\ MutationCall("remove", 0)

\* clearCart() from the confirmed clear button.
ClearCart ==
    /\ catalogInit.events
    /\ BagCardinality(cartOps) < MaxCartOps
    /\ MutationCall("clear", 0)

\* showCart(): renderCart() writes the lines, the subtotal and the total of the
\* cart as it is.
ShowCart ==
    /\ catalogInit.events
    /\ cartItems' = RenderCartLines(cart)
    /\ checkoutSubtotal' = RenderCartSubtotal(cart)
    /\ cartLast' = CartObs("showCart", "rendered", "none", FALSE, FALSE, NoForm,
                           SumTotalPrice(DoubleZero, cart), SumTotalPrice(DoubleZero, cart))
    /\ UNCHANGED <<cart, cartOrigin, cartRun, lastOrder, cartStorage, serverCart, cartOps>>
    /\ UNCHANGED <<swVars, catVars, pwaVars>>

\* updateTotals(): an input event on the discount, delivery or received field.
UpdateTotals ==
    /\ catalogInit.events
    /\ \E form \in Forms :
         LET subtotal == ParseFloatOrZero(checkoutSubtotal)
             total == UpdateTotalsTotal(subtotal, ParseFloatOrZero(form.discount),
                                        ParseFloatOrZero(form.delivery))
         IN  cartLast' = CartObs("updateTotals", "shown", "none", FALSE, FALSE, form,
                                 subtotal, total)
    /\ UNCHANGED <<cart, cartOrigin, cartRun, lastOrder, cartStorage, serverCart, cartOps,
                   cartItems, checkoutSubtotal>>
    /\ UNCHANGED <<swVars, catVars, pwaVars>>

\* checkout() up to its `await fetch(...)`.  The submit button is disabled while a
\* checkout is outstanding.
Checkout ==
    /\ catalogInit.events
    /\ BagCardinality(cartOps) < MaxCartOps
    /\ \A op \in BagToSet(cartOps) : op.kind # "checkout"
    /\ \E form \in Forms :
         LET subtotal == ParseFloatOrZero(checkoutSubtotal)
             received == ParseFloatOrZero(form.received)
             total == CheckoutTotal(subtotal, ParseFloatOrZero(form.discount),
                                    ParseFloatOrZero(form.delivery))
         IN  IF Len(cart) = 0
             THEN /\ cartLast' = CartObs("checkout", "empty", "error", FALSE, FALSE, form,
                                         subtotal, total)
                  /\ UNCHANGED cartOps
             ELSE IF CheckoutRejectsCash(form.method, received, total)
             THEN /\ cartLast' = CartObs("checkout", "short", "error", FALSE, FALSE, form,
                                         subtotal, total)
                  /\ UNCHANGED cartOps
             ELSE /\ cartLast' = CartObs("checkout", "called", "none", FALSE, TRUE, form,
                                         subtotal, total)
                  /\ cartOps' = With(cartOps, CartOp("checkout", 0, "sent", NoReply, form,
                                                     subtotal, total))
    /\ UNCHANGED <<cart, cartOrigin, cartRun, lastOrder, cartStorage, serverCart, cartItems,
                   checkoutSubtotal>>
    /\ UNCHANGED <<swVars, catVars, pwaVars>>

\* The server handles a request (external).  A cart mutation or a checkout: it
\* applies it and reports success, with or without the cart list, or refuses it.
\* GET /api/cart: it answers with the cart it holds at that moment, or with an
\* error status.
ServerReplies(kind, server) ==
    {[outcome |-> "failure", hasCart |-> FALSE, cart |-> << >>],
     [outcome |-> "success", hasCart |-> FALSE, cart |-> << >>]}
    \cup (IF kind = "checkout" THEN {}
          ELSE {[outcome |-> "success", hasCart |-> TRUE, cart |-> CartArray(server)]})

CartReplies(server) ==
    {[outcome |-> "ok", hasCart |-> TRUE, cart |-> CartArray(server)],
     [outcome |-> "notOk", hasCart |-> FALSE, cart |-> << >>]}

ServerHandles ==
    /\ \E op \in BagToSet(cartOps) :
         /\ op.phase = "sent"
         /\ LET applied == ServerEffect(op.kind, op.quantity, serverCart)
            IN  \E reply \in ServerReplies(op.kind, applied) :
                  /\ serverCart' = IF reply.outcome = "success" THEN applied ELSE serverCart
                  /\ cartOps' = With(Without(cartOps, op),
                                   [op EXCEPT !.phase = "replied", !.reply = reply])
                  /\ cartLast' = CartObs("server", reply.outcome, "none", FALSE, FALSE,
                                         NoForm, DoubleZero, DoubleZero)
                  /\ cartRun' = IF op.kind \in MutationKinds /\ reply.outcome # "success"
                                THEN "broken" ELSE cartRun
    /\ UNCHANGED <<cart, cartOrigin, lastOrder, cartStorage, cartItems, checkoutSubtotal>>
    /\ UNCHANGED <<swVars, catVars, pwaVars>>

ServerHandlesCart ==
    /\ \E op \in BagToSet(cartOps) :
         /\ op.phase = "reloading"
         /\ \E reply \in CartReplies(serverCart) :
              /\ cartOps' = With(Without(cartOps, op),
                                 [op EXCEPT !.phase = "reloaded", !.reply = reply])
              /\ cartLast' = CartObs("server", reply.outcome, "none", FALSE, FALSE,
                                     NoForm, DoubleZero, DoubleZero)
    /\ UNCHANGED <<cart, cartOrigin, cartRun, lastOrder, cartStorage, serverCart, cartItems,
                   checkoutSubtotal>>
    /\ UNCHANGED <<swVars, catVars, pwaVars>>

\* What an operation's last synchronous stretch leaves in the client.
ApplyMutationResult(op, r, outcome, delivered) ==
    /\ cart' = r.cart
    /\ cartRun' = RunAfterEnd(cartRun, delivered, outcome, r.notification)
    /\ cartStorage' = r.storage
    /\ cartItems' = IF r.rendered THEN RenderCartLines(r.cart) ELSE cartItems
    /\ checkoutSubtotal' = IF r.rendered THEN RenderCartSubtotal(r.cart) ELSE checkoutSubtotal
    /\ cartOps' = Without(cartOps, op)
    /\ cartLast' = CartObs(op.kind, outcome, r.notification, r.escaped, FALSE, NoForm,
                           DoubleZero, DoubleZero)

\* setItem of saveCartToStorage may throw, and is reached only on a success path.
StorageOutcomes == BOOLEAN

\* The fetch of a cart mutation rejects, or its body cannot be read: catch block.
MutationRejected ==
    /\ \E op \in BagToSet(cartOps) :
         /\ op.kind \in MutationKinds
         /\ op.phase \in {"sent", "replied"}
         /\ ApplyMutationResult(op, MutationFailed(op.kind, cart, cartStorage), "failed",
                                 FALSE)
    /\ UNCHANGED <<cartOrigin, lastOrder, serverCart>>
    /\ UNCHANGED <<swVars, catVars, pwaVars>>

\* The response of a cart mutation arrives and its body is read.
MutationReply ==
    /\ \E op \in BagToSet(cartOps) :
         /\ op.kind \in MutationKinds
         /\ op.phase = "replied"
         /\ cartOrigin' = MutationOrigin(cartOrigin, op.kind, op.reply)
         /\ IF op.reply.outcome # "success"
                THEN ApplyMutationResult(op, MutationFailed(op.kind, cart, cartStorage),
                                         "failed", TRUE)
                ELSE IF op.kind = "clear"
                THEN \E storageOk \in StorageOutcomes :
                       ApplyMutationResult(op,
                           MutationDone(op.kind, cartStorage,
                                        IF op.reply.hasCart THEN op.reply.cart ELSE << >>,
                                        storageOk), "done", TRUE)
                ELSE IF op.reply.hasCart
                THEN \E storageOk \in StorageOutcomes :
                       ApplyMutationResult(op,
                           MutationDone(op.kind, cartStorage, op.reply.cart, storageOk),
                           "done", TRUE)
                ELSE /\ cartOps' = With(Without(cartOps, op),
                                        [op EXCEPT !.phase = "reloading", !.reply = NoReply])
                     /\ cartLast' = CartObs(op.kind, "reloading", "none", FALSE, TRUE,
                                            NoForm, DoubleZero, DoubleZero)
                     /\ UNCHANGED <<cart, cartRun, cartStorage, cartItems, checkoutSubtotal>>
    /\ UNCHANGED <<lastOrder, serverCart>>
    /\ UNCHANGED <<swVars, catVars, pwaVars>>

\* What the GET /api/cart of an operation can settle with: the answer the server
\* gave it, or, the connection failing before or after, a network failure.
SettleOutcomes(op) ==
    {"proxyOffline", "rejected"}
    \cup (IF op.phase = "reloaded" THEN {op.reply.outcome} ELSE {})

\* GET /api/cart of loadCart() settles: at startup, where init() goes on when it
\* was the last of its three calls to settle, or inside a mutation whose response
\* carried no cart list.
LoadCartSettles ==
    /\ \E op \in BagToSet(cartOps) :
         /\ op.phase \in {"reloading", "reloaded"}
         /\ \E outcome \in SettleOutcomes(op) :
              LET loaded == LoadCartResult(cart, outcome, op.reply.cart, cartStorage)
              IN  /\ cartOrigin' = LoadCartOrigin(cartOrigin, outcome, cartStorage)
                  /\ IF op.kind = "loadCart"
                     THEN /\ cart' = loaded
                          /\ cartOps' = Without(cartOps, op)
                          /\ cartLast' = CartObs("loadCart", outcome, "none", FALSE, FALSE,
                                                 NoForm, DoubleZero, DoubleZero)
                          /\ catalogInit' = BindEvents([catalogInit EXCEPT !.cart = "done"])
                          /\ UNCHANGED <<cartRun, cartStorage, cartItems, checkoutSubtotal>>
                     ELSE /\ \E storageOk \in StorageOutcomes :
                               ApplyMutationResult(op,
                                   MutationDone(op.kind, cartStorage, loaded, storageOk),
                                   "done", outcome = "ok")
                          /\ UNCHANGED catalogInit
    /\ UNCHANGED <<lastOrder, serverCart>>
    /\ UNCHANGED <<products, catalogTotalCount, currentQuery, currentCategory, nextOffset,
                   hasMoreProducts, isFetchingProducts, productPageSize, catalogFetch,
                   pendingSaves, cachedProducts, catLast, pagesSinceReset, completedLists,
                   filterChanged>>
    /\ UNCHANGED <<swVars, pwaVars>>

\* The order record of a confirmed checkout.
OrderRecord(op, items) ==
    LET received == ParseFloatOrZero(op.form.received)
    IN  [present |-> TRUE,
         subtotal |-> op.subtotal,
         discount_amount |-> ParseFloatOrZero(op.form.discount),
         delivery_fee |-> ParseFloatOrZero(op.form.delivery),
         total |-> op.total,
         items |-> items,
         payment_method |-> op.form.method,
         amount_received |-> received,
         change |-> IF DoubleLess(op.total, received) THEN DoubleSub(received, op.total)
                    ELSE DoubleZero]

\* The response of checkout says success: the order is recorded, the cart emptied,
\* rendered and stored; a throwing setItem lands in the catch block.
CheckoutConfirmed(op) ==
    \E storageOk \in StorageOutcomes :
        /\ lastOrder' = OrderRecord(op, cart)
        /\ cart' = << >>
        /\ cartOrigin' = "empty"
        /\ cartItems' = RenderCartLines(<< >>)
        /\ checkoutSubtotal' = RenderCartSubtotal(<< >>)
        /\ cartStorage' = IF storageOk THEN Item(<< >>) ELSE cartStorage
        /\ cartLast' = CartObs("checkout", "confirmed",
                               IF storageOk THEN "order-success" ELSE "error",
                               FALSE, FALSE, op.form, op.subtotal, op.total)

\* The response says no success, or the fetch (or response.json()) throws: the
\* error is shown and nothing else changes.
CheckoutFailed(op) ==
    /\ cartLast' = CartObs("checkout", "failed", "error", FALSE, FALSE,
                           op.form, op.subtotal, op.total)
    /\ UNCHANGED <<cart, cartOrigin, lastOrder, cartStorage, cartItems, checkoutSubtotal>>

\* The fetch of checkout settles: confirmed, refused, or rejected.  The finally
\* block re-enables the submit button.
CheckoutSettles ==
    /\ \E op \in BagToSet(cartOps) :
         /\ op.kind = "checkout"
         /\ op.phase \in {"sent", "replied"}
         /\ \E thrown \in BOOLEAN :
              IF ~thrown /\ op.phase = "replied" /\ op.reply.outcome = "success"
              THEN CheckoutConfirmed(op)
              ELSE /\ thrown \/ op.phase = "replied"
                   /\ CheckoutFailed(op)
         /\ cartOps' = Without(cartOps, op)
    /\ UNCHANGED <<cartRun, serverCart>>
    /\ UNCHANGED <<swVars, catVars, pwaVars>>

\* The cart mutations and loadCart.
CartNext ==
    \/ AddToCart
    \/ UpdateCartQuantity
    \/ RemoveFromCart
    \/ ClearCart
    \/ ShowCart
    \/ ServerHandles
    \/ ServerHandlesCart
    \/ MutationRejected
    \/ MutationReply
    \/ LoadCartSettles

\* ---- overlapping cart mutations ----

\* Bound of the overlap model.
MaxOverlap == 2     \* cart operations in flight at once

\* The add button of a product card and the clear button are not disabled while
\* another cart request is outstanding (the add button only while its own is).
OverlappingAddToCart ==
    /\ CanAddToCart
    /\ BagCardinality(cartOps) < MaxOverlap
    /\ \E quantity \in {1, MaxQuantity} : MutationCall("add", quantity)

OverlappingClearCart ==
    /\ catalogInit.events
    /\ BagCardinality(cartOps) < MaxOverlap
    /\ MutationCall("clear", 0)

CartOverlapNext ==
    \/ OverlappingAddToCart
    \/ OverlappingClearCart
    \/ ServerHandles
    \/ ServerHandlesCart
    \/ MutationRejected
    \/ MutationReply
    \/ LoadCartSettles

\* The checkout form and checkout, with the cart filled by loadCart at startup
\* and emptied by clearCart.
CheckoutNext ==
    \/ ClearCart
    \/ ShowCart
    \/ UpdateTotals
    \/ Checkout
    \/ ServerHandles
    \/ ServerHandlesCart
    \/ MutationRejected
    \/ MutationReply
    \/ LoadCartSettles
    \/ CheckoutSettles

\* The parts a specification does not exercise rest in one fixed state.
(***************************************************************************)
(*                 SERVICE-WORKER REGISTRATION IN A TAB                    *)
(***************************************************************************)

\* The document of the tab as registerServiceWorker leaves it.
\*   registered            register() has run: the listeners are attached
\*   tracked               the workers the updatefound listener put a statechange
\*                         listener on
\*   reloadingForNewWorker the guard of the controllerchange listener
\*   reloadCalls           calls of window.location.reload() by this document
\*   unloading             reload() was called, the document is not yet replaced
FreshDocument ==
    [registered |-> FALSE, tracked |-> {}, reloadingForNewWorker |-> FALSE,
     reloadCalls |-> 0, unloading |-> FALSE]

\* requestImmediateActivation(worker): worker.postMessage({type: 'SKIP_WAITING'}).
RequestImmediateActivation(inbox, worker) ==
    IF worker.version = 0 THEN inbox
    ELSE Append(inbox, [to |-> worker.version, data |-> "SKIP_WAITING"])

\* The statechange listener: the message goes out for an installed worker when a
\* controller exists.
StateChangePosts(state, controller) ==
    state = "installed" /\ controller # 0

\* Mutant of ReloadGuarded: the guard is never taken.
ReloadGuarded_Never(reloadingForNewWorker) == FALSE

\* The controllerchange listener's early return.
ReloadGuarded(reloadingForNewWorker) == reloadingForNewWorker

\* A first visit: the tab is open, no worker is registered.
PwaIdle ==
    /\ pwaDoc = FreshDocument
    /\ tabReloads = 0
    /\ pwaReg = [controller |-> 0, active |-> 0, latest |-> 0, worker |-> NoWorker]
    /\ pwaInbox = << >>
    /\ pwaEvents = << >>
    /\ pwaLast = PwaObs("none", "no-data", FALSE, FALSE, FALSE)

\* A later visit: the worker of the previous deployment is active and controls the tab.
PwaControlled ==
    /\ pwaDoc = FreshDocument
    /\ tabReloads = 0
    /\ pwaReg = [controller |-> 1, active |-> 1, latest |-> 1,
                 worker |-> [version |-> 1, skipWaiting |-> {"install"}]]
    /\ pwaInbox = << >>
    /\ pwaEvents = << >>
    /\ pwaLast = PwaObs("none", "no-data", FALSE, FALSE, FALSE)

\* register(): the registration resolves, a waiting worker is asked to activate,
\* the updatefound and controllerchange listeners are attached.
Register ==
    /\ ~pwaDoc.registered
    /\ Len(pwaInbox) < MaxInbox
    /\ pwaDoc' = [pwaDoc EXCEPT !.registered = TRUE]
    /\ pwaInbox' = RequestImmediateActivation(pwaInbox, Waiting)
    /\ pwaLast' = PwaObs("register", "SKIP_WAITING", FALSE, Waiting # NoWorker, FALSE)
    /\ UNCHANGED <<tabReloads, pwaReg, pwaEvents>>
    /\ UNCHANGED <<swVars, catVars, cartVars>>

\* The updatefound listener: registration.installing, which the browser set before
\* it fired the event, gets a statechange listener.
UpdateFoundListener ==
    /\ pwaEvents # << >>
    /\ Head(pwaEvents).type = "updatefound"
    /\ LET installingWorker == Head(pwaEvents).version
       IN  IF ~pwaDoc.registered \/ installingWorker = 0
           THEN /\ pwaLast' = PwaObs("updatefound-unheard", "no-data", FALSE, FALSE, FALSE)
                /\ UNCHANGED pwaDoc
           ELSE /\ pwaDoc' = [pwaDoc EXCEPT !.tracked = @ \cup {installingWorker}]
                /\ pwaLast' = PwaObs("updatefound", "no-data", FALSE, FALSE, FALSE)
    /\ pwaEvents' = Tail(pwaEvents)
    /\ UNCHANGED <<tabReloads, pwaReg, pwaInbox>>
    /\ UNCHANGED <<swVars, catVars, cartVars>>

\* The statechange listener of a tracked worker: installingWorker.state is the state
\* the browser set when it fired the event, navigator.serviceWorker.controller the
\* tab's controller now.
StateChange ==
    /\ pwaEvents # << >>
    /\ Head(pwaEvents).type = "statechange"
    /\ Len(pwaInbox) < MaxInbox
    /\ LET e == Head(pwaEvents)
           heard == e.version \in pwaDoc.tracked
           posts == heard /\ StateChangePosts(e.state, pwaReg.controller)
       IN  /\ pwaInbox' = IF posts
                          THEN RequestImmediateActivation(pwaInbox,
                                  [version |-> e.version, skipWaiting |-> {}])
                          ELSE pwaInbox
           /\ pwaLast' = PwaObs(IF heard THEN "statechange" ELSE "statechange-unheard",
                                "SKIP_WAITING", FALSE, posts, FALSE)
    /\ pwaEvents' = Tail(pwaEvents)
    /\ UNCHANGED <<pwaDoc, tabReloads, pwaReg>>
    /\ UNCHANGED <<swVars, catVars, cartVars>>

\* A controllerchange event reaches the document; without the listener it is lost.
ControllerChange ==
    /\ pwaEvents # << >>
    /\ Head(pwaEvents).type = "controllerchange"
    /\ pwaEvents' = Tail(pwaEvents)
    /\ IF ~pwaDoc.registered
       THEN /\ pwaLast' = PwaObs("controllerchange-unheard", "no-data", FALSE, FALSE, FALSE)
            /\ UNCHANGED pwaDoc
       ELSE IF ReloadGuarded(pwaDoc.reloadingForNewWorker)
       THEN /\ pwaLast' = PwaObs("controllerchange", "no-data", FALSE, FALSE, TRUE)
            /\ UNCHANGED pwaDoc
       ELSE /\ pwaDoc' = [pwaDoc EXCEPT !.reloadingForNewWorker = TRUE,
                                        !.reloadCalls = @ + 1,
                                        !.unloading = TRUE]
            /\ pwaLast' = PwaObs("controllerchange", "no-data", FALSE, FALSE, FALSE)
    /\ UNCHANGED <<tabReloads, pwaReg, pwaInbox>>
    /\ UNCHANGED <<swVars, catVars, cartVars>>

\* The reload requested by the document happens: the tab gets a new document, whose
\* script has not yet run register() and which the active worker controls; the
\* tasks queued for the old one are gone.
ReloadCompletes ==
    /\ pwaDoc.unloading
    /\ pwaDoc' = FreshDocument
    /\ tabReloads' = tabReloads + 1
    /\ pwaEvents' = << >>
    /\ pwaReg' = [pwaReg EXCEPT !.controller = pwaReg.active]
    /\ pwaLast' = PwaObs("reloaded", "no-data", FALSE, FALSE, FALSE)
    /\ UNCHANGED pwaInbox
    /\ UNCHANGED <<swVars, catVars, cartVars>>

\* The worker's lifecycle and the tab's document.
PwaNext ==
    \/ Register
    \/ UpdateFound
    \/ Install
    \/ InstallAddAll
    \/ InstallSkipWaiting
    \/ WorkerActivates
    \/ Activate
    \/ ActivateDelete
    \/ ActivateClaim
    \/ UpdateFoundListener
    \/ StateChange
    \/ PostOther
    \/ Message
    \/ ControllerChange
    \/ ReloadCompletes

SwIdle ==
    /\ swState = "parsed"
    /\ cacheNames = << >>
    /\ cacheStore = [n \in AllCacheNames |-> EmptyPartition]
    /\ cacheDetached = << >>
    /\ handlers = EmptyBag
    /\ swListener = NoListener
    /\ swLast = SwObs("none", NoRequest, Undefined, NoAnswer, {}, FALSE, {})
    /\ swReplaced = Undefined

\* The profile of a later visit: the partitions of the previous deployment, whose
\* worker is active.
SwPreviousVersion ==
    /\ swState = "activated"
    /\ cacheNames = PreviousVersionProfile.names
    /\ cacheStore = PreviousVersionProfile.store
    /\ cacheDetached = << >>
    /\ handlers = EmptyBag
    /\ swListener = NoListener
    /\ swLast = SwObs("none", NoRequest, Undefined, NoAnswer, {}, FALSE, {})
    /\ swReplaced = Undefined

CatIdle ==
    /\ products = << >> /\ catalogTotalCount = 0 /\ currentQuery = ""
    /\ currentCategory = "all" /\ nextOffset = 0 /\ hasMoreProducts = TRUE
    /\ isFetchingProducts = FALSE /\ productPageSize = PageSmall
    /\ catalogInit = NotStarted
    /\ catalogFetch = << >> /\ pendingSaves = 0 /\ cachedProducts = NoItem
    /\ catLast = CatObs("none", FALSE, FALSE, FALSE, "none")
    /\ pagesSinceReset = [resetOk |-> FALSE, items |-> << >>, count |-> 0]
    /\ completedLists = NoneCompleted
    /\ filterChanged = FALSE

Init == SwInit /\ CatIdle /\ CartIdle /\ PwaIdle
Spec == Init /\ [][SwNext]_vars
\* Startup and paging: the three calls of init(), the scroll sentinel and resizes.
CatPagingNext ==
    \/ ObserverVisible
    \/ Resize
    \/ LoadProductsSuccess
    \/ LoadProductsFailure
    \/ SaveSnapshot
    \/ LoadCategoriesSettle
    \/ ServerHandlesCart
    \/ LoadCartSettles
InitCatalog == SwIdle /\ CatInit /\ CartFirstVisit /\ PwaIdle
SpecCatalogPaging == InitCatalog /\ [][CatPagingNext]_vars
\* Startup with the category buttons, which renderCategories makes before init()
\* has attached the other listeners.
CatStartNext ==
    \/ FilterByCategory
    \/ AllProducts
    \/ ObserverVisible
    \/ LoadProductsSuccess
    \/ LoadProductsFailure
    \/ SaveSnapshot
    \/ LoadCategoriesSettle
    \/ ServerHandlesCart
    \/ LoadCartSettles
SpecCatalogStart == InitCatalog /\ [][CatStartNext]_vars
\* Every caller of loadProducts, from the moment GET /api/cart has settled.
CatNext ==
    \/ SearchProducts
    \/ FilterByCategory
    \/ AllProducts
    \/ HomeAction
    \/ ObserverVisible
    \/ LoadProductsSuccess
    \/ LoadProductsFailure
    \/ SaveSnapshot
    \/ LoadCategoriesSettle
InitCatalogAfterCart == SwIdle /\ CatInitAfterCart /\ CartLoaded /\ PwaIdle
SpecCatalog == InitCatalogAfterCart /\ [][CatNext]_vars
\* The catalog data layer with one caller of each kind of load (the search box for
\* reset loads, the scroll sentinel for incremental ones), when every fetch of
\* loadProducts eventually settles.
CatLiveNext ==
    \/ SearchProducts
    \/ ObserverVisible
    \/ LoadProductsSuccess
    \/ LoadProductsFailure
    \/ SaveSnapshot
    \/ LoadCategoriesSettle
SpecCatalogLive ==
    InitCatalogAfterCart /\ [][CatLiveNext]_vars
        /\ WF_vars(LoadProductsSuccess \/ LoadProductsFailure)
\* The cart and the checkout start with the catalog on screen.
InitCart == SwIdle /\ CatLoaded /\ CartInit /\ PwaIdle
SpecCart == InitCart /\ [][CartNext]_vars
SpecCheckout == InitCart /\ [][CheckoutNext]_vars
SpecCartOverlap == InitCart /\ [][CartOverlapNext]_vars
InitPwa ==
    \/ SwIdle /\ CatIdle /\ CartIdle /\ PwaIdle
    \/ SwPreviousVersion /\ CatIdle /\ CartIdle /\ PwaControlled
SpecPwa == InitPwa /\ [][PwaNext]_vars
InitActivated == SwActivated /\ CatIdle /\ CartIdle /\ PwaIdle
SpecRoute == InitActivated /\ [][RouteNext]_vars
SpecPages == InitActivated /\ [][PagesNext]_vars
SpecManifestPages == InitActivated /\ [][ManifestPagesNext]_vars
SpecFallback == InitActivated /\ [][FallbackNext]_vars
SpecStatic == InitActivated /\ [][StaticNext]_vars

(***************************************************************************)
(*                              CLAIMS                                     *)
(***************************************************************************)

CurrentCaches == {STATIC_CACHE, RUNTIME_CACHE}

\* The entries some partition holds for a path.
CachedCopies(path) ==
    {cacheStore[n][path] : n \in SeqRange(cacheNames)} \ {Undefined}

\* C1: when the activate handler has run to its end, every enumerable partition
\* carries the current static or runtime name; and no step of the handler removes
\* or changes a partition that carries one of the two names.
C1_ActivateKeepsOnlyCurrent ==
    [][ /\ swLast'.op = "activate" => SeqRange(cacheNames') \subseteq CurrentCaches
        /\ swLast'.op \in {"activate-keys", "activate-delete", "activate-failed", "activate"} =>
              \A n \in SeqRange(cacheNames) \cap CurrentCaches :
                 n \in SeqRange(cacheNames') /\ cacheStore'[n] = cacheStore[n] ]_vars

\* C1 witness: activate ended on the profile that held the old static partition
\* next to the current ones; the old one is gone and the runtime partition that
\* existed before is still there with its entry.
C1_Witness ==
    /\ swLast.op = "activate"
    /\ swState = "activated"
    /\ OLD_STATIC_CACHE \notin SeqRange(cacheNames)
    /\ RUNTIME_CACHE \in SeqRange(cacheNames)
    /\ cacheStore[RUNTIME_CACHE][ABOUT_URL] = Basic(ABOUT_URL, 200, "old")

\* The key of the lookup a step of navigationHandler's catch block made.
LookupKey(obs) ==
    IF obs.op = "navigation-cachedPage" THEN obs.request.path
    ELSE IF obs.op = "navigation-homeFromCache" THEN ROOT_URL
    ELSE OFFLINE_URL

FallbackLookups == {"navigation-cachedPage", "navigation-homeFromCache", "navigation-offlinePage"}

\* C2: a navigation whose fetch failed looks up the requested page first; each
\* lookup that finds a copy in the partitions, as they are when it runs, answers
\* with it; a miss of the page goes on to the site root, a miss of the root to the
\* offline page, and a miss of the offline page answers with a network-error
\* response.  So with contents that do not change meanwhile the answer is the first
\* that is cached of page, root and offline page.
C2_NavigationFallbackOrder ==
    /\ [][(swLast'.op = "fetch-navigation" /\ swLast'.network = Rejected) =>
             /\ swLast'.answer = NoAnswer
             /\ handlers' (-) handlers =
                   SetToBag({Handler("navigationHandler", swLast'.request, "cachedPage",
                                     Rejected, NoCache, TRUE)})]_vars
    /\ [][(swLast'.op \in FallbackLookups /\ swLast'.network = Rejected) =>
             LET key == LookupKey(swLast')
                 t == Handler("navigationHandler", swLast'.request,
                              IF swLast'.op = "navigation-cachedPage" THEN "homeFromCache"
                              ELSE "offlinePage",
                              Rejected, NoCache, TRUE)
             IN  IF CachedCopies(key) # {}
                 THEN /\ swLast'.answer \in CachedCopies(key)
                      /\ handlers' \sqsubseteq handlers
                 ELSE IF swLast'.op = "navigation-offlinePage"
                 THEN /\ swLast'.answer = ResponseError
                      /\ handlers' \sqsubseteq handlers
                 ELSE /\ swLast'.answer = NoAnswer
                      /\ CopiesIn(t, handlers') = CopiesIn(t, handlers) + 1]_vars

\* C2 witness: neither the requested page nor the site root is cached, the offline
\* page is; the fetch had failed and the third lookup answered with the offline page.
C2_Witness ==
    /\ swLast.op = "navigation-offlinePage"
    /\ swLast.network = Rejected
    /\ swLast.request.path = ABOUT_URL
    /\ CachedCopies(ABOUT_URL) = {}
    /\ CachedCopies(ROOT_URL) = {}
    /\ CachedCopies(OFFLINE_URL) # {}
    /\ swLast.answer.url = OFFLINE_URL

\* The respondWith promise of an event settled in the last step.
AnswerSettled == swLast.answer # NoAnswer

\* C3 (as claimed): a same-origin GET under /api/, in any mode, is answered with the
\* live network response or the synthesized offline response, is not read from a
\* partition, and no partition ever holds a response to such a request.
C3_ApiNeverCached ==
    /\ \A n \in SeqRange(cacheNames) : \A u \in Urls :
          StartsWithDir(u, "api") => cacheStore[n][u] = Undefined
    /\ ( /\ swLast.request.method = "GET"
         /\ swLast.request.origin = "self"
         /\ StartsWithDir(swLast.request.path, "api") )
       => /\ AnswerSettled => swLast.answer \in {swLast.network, OfflineJson}
          /\ ~swLast.read
          /\ swLast.wrote = {}

\* C10: every entry of the current static and runtime partitions has a successful
\* (2xx) status and a type other than "error".
C10_OnlySuccessfulStored ==
    \A n \in SeqRange(cacheNames) \cap CurrentCaches : \A u \in Urls :
        cacheStore[n][u] # Undefined =>
            /\ cacheStore[n][u].status \in 200..299
            /\ cacheStore[n][u].type # "error"

\* C10 witness: a navigation got a 404 from the network, nothing was stored for it,
\* while the runtime partition holds another entry.
C10_Witness ==
    /\ swLast.op = "fetch-navigation"
    /\ swLast.network.status = 404
    /\ swLast.answer = swLast.network
    /\ RUNTIME_CACHE \in SeqRange(cacheNames)
    /\ cacheStore[RUNTIME_CACHE][swLast.request.path] = Undefined
    /\ \E u \in Urls : cacheStore[RUNTIME_CACHE][u] # Undefined

\* C4: a call to loadProducts made while the in-flight flag is set changes neither
\* the product list, the cursor, hasMore, the total count, the flag nor the set of
\* outstanding requests; and never is more than one catalog request outstanding.
C4_InFlightExclusive ==
    /\ [](Len(catalogFetch) <= 1)
    /\ [][(isFetchingProducts /\ catLast'.called) =>
              UNCHANGED <<products, nextOffset, hasMoreProducts, catalogTotalCount,
                          isFetchingProducts, catalogFetch>>]_vars

\* C4 witness: a reset load was called while an incremental load was outstanding
\* and was dropped; the one request is still outstanding.
C4_Witness ==
    /\ catLast.called /\ catLast.reset /\ catLast.outcome = "dropped"
    /\ isFetchingProducts
    /\ Len(catalogFetch) = 1
    /\ ~catalogFetch[1].reset
    /\ Len(products) > 0

\* C5: once a reset load has succeeded, nextOffset is the number of items the
\* responses since that reset returned, the list is those pages concatenated in
\* order, and an outstanding request carries offset = nextOffset.
C5_OffsetIsItemsReturned ==
    /\ pagesSinceReset.resetOk =>
          /\ nextOffset = pagesSinceReset.count
          /\ products = pagesSinceReset.items
          /\ Len(products) = nextOffset
    /\ \A i \in 1..Len(catalogFetch) : catalogFetch[i].offset = nextOffset

\* C5 witness: page size 8, two pages returned (16 items, nextOffset 16), and the
\* third request is outstanding with offset 16 and limit 8.
C5_Witness ==
    /\ pagesSinceReset.resetOk
    /\ nextOffset = 2 * PageSmall
    /\ Len(products) = 2 * PageSmall
    /\ Len(catalogFetch) = 1
    /\ catalogFetch[1].offset = 2 * PageSmall
    /\ catalogFetch[1].limit = PageSmall

\* C6 (as claimed): the first request issued after a change of the query or of the
\* category carries offset 0.
C6_FilterChangeResetsOffset ==
    \A i \in 1..Len(catalogFetch) :
        catalogFetch[i].afterChange => catalogFetch[i].offset = 0

\* C7: the call of a cart mutation and the handling of its failure (a response that
\* does not report success, or a rejected fetch) leave the in-memory cart and the
\* stored cart snapshot as they were; the failure produces an error notification
\* and no exception leaves the operation.
C7_FailedMutationLeavesCart ==
    [][(cartLast'.op \in MutationKinds /\ cartLast'.outcome \in {"called", "failed"}) =>
          /\ cart' = cart
          /\ cartStorage' = cartStorage
          /\ cartLast'.outcome = "failed" =>
                (cartLast'.notification = "error" /\ ~cartLast'.escaped)]_vars

\* C7 witness: an update of a one-item cart failed; cart and snapshot still hold
\* the one item.
C7_Witness ==
    /\ cartLast.op = "update"
    /\ cartLast.outcome = "failed"
    /\ cartLast.notification = "error"
    /\ cart = CartArray(1)
    /\ cartStorage = Item(CartArray(1))

\* The hundredths a money text or a money number stands for.
CentsOfText(text) == IF text.kind = "decimal" THEN text.cents ELSE 0
ExactTotal(subtotal, form) ==
    Max(0, HundredthsNearest(subtotal) - CentsOfText(form.discount)
           + CentsOfText(form.delivery))

\* C8: a checkout() call made with an empty cart, or with method Cash and an amount
\* received below the total (the total checkout() computed, or the exact amount
\* max(0, subtotal - discount + delivery)), issues no request and leaves the cart
\* and the last order unchanged; with a non-empty cart and another method the
\* request is issued whatever the amount received.
C8_CheckoutRejectedLocally ==
    [][(cartLast'.op = "checkout" /\ cartLast'.outcome \in {"empty", "short", "called"}) =>
          LET form == cartLast'.form
              short == \/ DoubleLess(ParseFloatOrZero(form.received), cartLast'.total)
                       \/ CentsOfText(form.received) < ExactTotal(cartLast'.subtotal, form)
          IN  /\ (cart = << >> \/ (form.method = "Cash" /\ short)) =>
                    /\ ~cartLast'.issued
                    /\ cartOps' = cartOps
                    /\ cart' = cart
                    /\ lastOrder' = lastOrder
              /\ (cart # << >> /\ form.method # "Cash") =>
                    /\ cartLast'.issued
                    /\ BagCardinality(cartOps') = BagCardinality(cartOps) + 1]_vars

\* C8 witness: subtotal 50.00, discount 5.00, delivery 3.00, Cash, received 40.00:
\* rejected with no request.
C8_Witness ==
    /\ cartLast.op = "checkout"
    /\ cartLast.outcome = "short"
    /\ cartLast.subtotal = NumberOfCents(5000)
    /\ cartLast.total = NumberOfCents(4800)
    /\ cartLast.form.received = DecimalText(4000)
    /\ ~cartLast.issued
    /\ cart # << >>

\* C9 (as claimed): the total of updateTotals and the total of checkout are both
\* the amount max(0, subtotal - discount + delivery) in hundredths; the order
\* recorded carries that total; and the two computations agree on all inputs.
C9_TotalFlooredAndConsistent ==
    /\ cartLast.op \in {"updateTotals", "checkout"} =>
          cartLast.total = NumberOfCents(ExactTotal(cartLast.subtotal, cartLast.form))
    /\ lastOrder.present =>
          lastOrder.total =
              NumberOfCents(Max(0, HundredthsNearest(lastOrder.subtotal)
                                   - HundredthsNearest(lastOrder.discount_amount)
                                   + HundredthsNearest(lastOrder.delivery_fee)))
    /\ \A form \in Forms : \A quantity \in 0..MaxQuantity :
          LET subtotal == NumberOfCents(quantity * UnitPrice(1))
              discount == ParseFloatOrZero(form.discount)
              delivery == ParseFloatOrZero(form.delivery)
          IN  UpdateTotalsTotal(subtotal, discount, delivery)
                  = CheckoutTotal(subtotal, discount, delivery)

(***************************************************************************)
(*                 CLAIMS C11 - C20: proxy strategies, install, cart       *)
(***************************************************************************)

ResponseTypes == {"basic", "opaqueredirect", "error", "offline-json"}

\* C11 (as claimed): whenever the promise handed to respondWith settles, it settles
\* with a response (live, cached or synthetic); it is never rejected and never
\* resolved with undefined.
C11_AlwaysAnswersResponse ==
    AnswerSettled => swLast.answer.type \in ResponseTypes

FetchSteps ==
    {"fetch-passthrough", "fetch-navigation", "fetch-api", "fetch-static",
     "fetch-networkFirst"}

\* C12: a non-navigation same-origin GET under /api/ whose fetch rejects is answered
\* with status 503 and the JSON body {success: false, message: "You are offline
\* right now."}; when the fetch resolves the answer is the network response itself,
\* whatever its status.
C12_ApiOfflineJson ==
    ( /\ swLast.op \in FetchSteps
      /\ swLast.request.method = "GET"
      /\ swLast.request.origin = "self"
      /\ swLast.request.mode # "navigate"
      /\ StartsWithDir(swLast.request.path, "api") )
    => IF swLast.network = Rejected
       THEN /\ swLast.answer.status = 503
            /\ swLast.answer.type = "offline-json"
            /\ swLast.answer.body = "You are offline right now."
       ELSE swLast.answer = swLast.network

\* C12 witness: an API call met a failed fetch and got the 503 answer.
C12_Witness ==
    /\ swLast.op = "fetch-api"
    /\ swLast.request.path = API_CART_URL
    /\ swLast.network = Rejected
    /\ swLast.answer.status = 503

\* The strategy the documented precedence gives a same-origin GET.
Precedence(request) ==
    LET path == request.path
        underApi == Len(path) >= 2 /\ path[1] = "api"
        underStatic == Len(path) >= 2 /\ path[1] = "static"
    IN  IF request.mode = "navigate" THEN "navigationHandler"
        ELSE IF underApi THEN "api"
        ELSE IF underStatic \/ path = <<"manifest.webmanifest">> THEN "staleWhileRevalidate"
        ELSE "networkFirst"

OpOfStrategy(strategy) ==
    IF strategy = "navigationHandler" THEN "fetch-navigation"
    ELSE IF strategy = "api" THEN "fetch-api"
    ELSE IF strategy = "staleWhileRevalidate" THEN "fetch-static"
    ELSE "fetch-networkFirst"

\* C13: an intercepted same-origin GET is handled by exactly the strategy its mode
\* and path select: navigate mode, else the /api/ prefix, else the /static/ prefix
\* or the manifest path, else network-first; whatever the partitions hold and
\* whatever handlers are running.
C13_RoutePrecedence ==
    /\ \A mode \in {"navigate", "cors", "no-cors"} : \A path \in Urls :
          Route(Request("GET", "self", mode, path))
             = Precedence(Request("GET", "self", mode, path))
    /\ ( /\ swLast.op \in FetchSteps
         /\ swLast.request.method = "GET"
         /\ swLast.request.origin = "self" )
       => swLast.op = OpOfStrategy(Precedence(swLast.request))

\* C13 witness: a navigation to a path under /api/ went to the navigation handler
\* while a script-issued request for the style sheet is with stale-while-revalidate.
C13_Witness ==
    /\ swLast.op = "fetch-navigation"
    /\ swLast.request.path = API_CART_URL
    /\ \E t \in BagToSet(handlers) :
         t.kind = "staleWhileRevalidate" /\ t.request.path = STYLE_URL

\* C14: a request that is not a GET, or not of the worker's origin, gets no
\* respondWith answer, starts no handler and leaves the partition list and every
\* partition as they were.
C14_PassthroughUntouched ==
    [][( /\ swLast'.op \in FetchSteps
         /\ (swLast'.request.method # "GET" \/ swLast'.request.origin # "self") )
       => /\ swLast'.answer = NoAnswer
          /\ ~swLast'.read
          /\ swLast'.wrote = {}
          /\ cacheNames' = cacheNames
          /\ cacheStore' = cacheStore
          /\ handlers' = handlers]_vars

\* C14 witness: a cross-origin GET for a stylesheet passed through while the static
\* partition holds that path.
C14_Witness ==
    /\ swLast.op = "fetch-passthrough"
    /\ swLast.request.origin = "cdn"
    /\ swLast.request.method = "GET"
    /\ STATIC_CACHE \in SeqRange(cacheNames)
    /\ cacheStore[STATIC_CACHE][swLast.request.path] # Undefined

\* The handler that took the last step, and what the cache object it held had
\* stored for its request.
Stepped == CHOOSE t \in BagToSet(handlers (-) handlers') : TRUE
HeldEntry(t) ==
    IF t.cache.id = 0 THEN cacheStore[t.cache.name][t.request.path]
    ELSE cacheDetached[t.cache.id][t.request.path]

\* C15: when cache.match of stale-while-revalidate finds a copy in the static
\* partition the handler opened, that copy is the answer, given in the step that
\* starts the network fetch; the settling of that fetch and the write that follows
\* it (resolved, rejected, stored, failed to store, or never) give no other answer.
C15_CachedAnsweredAtOnce ==
    /\ [][(swLast'.op = "static-cachedResponse" /\ HeldEntry(Stepped) # Undefined) =>
             /\ swLast'.answer = HeldEntry(Stepped)
             /\ handlers' (-) handlers =
                   SetToBag({Handler("staleWhileRevalidate", swLast'.request,
                                     "networkPromise", Undefined, NoCache, FALSE)})]_vars
    /\ [][(swLast'.op \in {"refresh", "cache-open", "cache-put"} /\ ~Stepped.waiting) =>
             /\ swLast'.answer = NoAnswer
             /\ \A t \in BagToSet(handlers' (-) handlers) : ~t.waiting]_vars

\* C15 witness: the cached stylesheet was returned while its network fetch is
\* still outstanding.
C15_Witness ==
    /\ swLast.op = "static-cachedResponse"
    /\ swLast.answer = Basic(STYLE_URL, 200, "precached")
    /\ \E t \in BagToSet(handlers) :
         t.request.path = STYLE_URL /\ t.pc = "networkPromise" /\ ~t.waiting

\* C16 (as claimed): stale-while-revalidate that found no copy in the static
\* partition answers with the network response whenever the fetch resolved, after
\* the write of a successful one, and with a network-error response when the fetch
\* failed.
C16_UncachedAwaitsNetwork ==
    (swLast.op \in {"refresh", "cache-open", "cache-put"} /\ AnswerSettled) =>
        IF swLast.network = Rejected
        THEN swLast.answer = ResponseError
        ELSE /\ swLast.answer = swLast.network
             /\ swLast.network.status = 200 => swLast.op = "cache-put"

NetworkFirstSteps ==
    {"fetch-networkFirst", "cache-open", "cache-put", "networkFirst-cache",
     "networkFirst-cachedResponse", "networkFirst-offline"}

\* C17 (as claimed): network-first returns the network response when the fetch
\* succeeded, and writes a copy of a 200 response under the request's key of the
\* runtime partition only; when the fetch failed it returns the runtime partition's
\* copy if there is one and the offline page otherwise.
C17_NetworkFirstFallback ==
    ( /\ swLast.op \in NetworkFirstSteps
      /\ swLast.request.mode # "navigate"
      /\ AnswerSettled )
    => IF swLast.network # Rejected
       THEN /\ swLast.answer = swLast.network
            /\ swLast.wrote \subseteq {<<RUNTIME_CACHE, swLast.request.path>>}
       ELSE IF swLast.op = "networkFirst-cachedResponse"
       THEN swLast.answer.type = "basic" /\ swLast.answer.url = swLast.request.path
       ELSE swLast.answer.type = "basic" /\ swLast.answer.url = OFFLINE_URL

\* C18 (as claimed): whenever the fetch of a navigation resolved, the handler's
\* answer is that network response, whatever its status, and the cache fallback
\* chain is not consulted.
C18_NavigationReturnsNetwork ==
    ( /\ swLast.op \in {"fetch-navigation", "cache-open", "cache-put"} \cup FallbackLookups
      /\ swLast.request.mode = "navigate"
      /\ swLast.network # Rejected )
    => /\ ~swLast.read
       /\ AnswerSettled => swLast.answer = swLast.network

\* C19 (as claimed): when an install attempt fails, the partitions hold what they
\* held before the failing call and the worker is discarded; when install succeeds
\* the static partition exists and holds every asset of the manifest.
C19_InstallAllOrNothing ==
    [][ /\ swLast'.op = "install-failed" =>
              /\ cacheStore' = cacheStore
              /\ swState' = "redundant"
        /\ swLast'.op = "install" =>
              /\ swState' = "installed"
              /\ STATIC_CACHE \in SeqRange(cacheNames')
              /\ \A i \in 1..Len(PRECACHE_URLS) :
                    cacheStore'[STATIC_CACHE][PRECACHE_URLS[i]] # Undefined ]_vars

\* C20 (as claimed): when a cart mutation that the server reported successful ends,
\* this.cart is the list its response carried, or, the response carrying none, the
\* empty list for clear and the server's cart as a fresh GET /api/cart returns it
\* for the others; and the stored snapshot is the text of this.cart.
C20_SuccessAdoptsAndMirrors ==
    [][\A op \in BagToSet(cartOps) :
          ( /\ op.kind \in MutationKinds
            /\ cartOps' = Without(cartOps, op)
            /\ cartLast'.op = op.kind
            /\ cartLast'.outcome = "done" )
          => /\ IF op.phase = "replied"
                THEN cart' = IF op.reply.hasCart THEN op.reply.cart ELSE << >>
                ELSE /\ op.phase = "reloaded"
                     /\ op.reply.outcome = "ok"
                     /\ cart' = op.reply.cart
             /\ cartStorage' = Item(cart')]_vars

(***************************************************************************)
(*        CLAIMS C21 - C30: offline fallbacks, persistence, PWA control    *)
(***************************************************************************)

\* C21 (as claimed): when the startup loadCart cannot reach the server (its fetch
\* rejects, or the proxy answers with its synthesized offline response) and local
\* storage holds a cart snapshot, this.cart is that snapshot afterwards.
C21_OfflineCartFromSnapshot ==
    [][( /\ cartLast'.op = "loadCart"
         /\ cartLast'.outcome \in {"rejected", "proxyOffline"}
         /\ cartStorage.present )
       => cart' = JsonParse(cartStorage.text)]_vars

\* C23: a failed reset load with a stored snapshot leaves exactly the snapshot as
\* the list, its length as the total count and hasMore false; without a snapshot it
\* leaves the list empty and reports the error; either way the in-flight flag is
\* cleared.
C23_FailedResetRehydrates ==
    [][( /\ catLast'.op = "settle"
         /\ catLast'.reset
         /\ catLast'.outcome \in {"rehydrated", "error"} )
       => /\ ~isFetchingProducts'
          /\ IF cachedProducts.present
             THEN /\ products' = JsonParse(cachedProducts.text)
                  /\ catalogTotalCount' = Len(JsonParse(cachedProducts.text))
                  /\ ~hasMoreProducts'
                  /\ catLast'.outcome = "rehydrated"
             ELSE /\ products' = << >>
                  /\ catLast'.outcome = "error"]_vars

\* C23 witness: a reset load for the filter "rose" failed and the list is the
\* snapshot of an earlier visit, marked fully loaded.
C23_Witness ==
    /\ catLast.op = "settle"
    /\ catLast.reset
    /\ catLast.outcome = "rehydrated"
    /\ currentQuery = "rose"
    /\ products = <<1, 2, 3>>
    /\ catalogTotalCount = 3
    /\ ~hasMoreProducts
    /\ ~isFetchingProducts

\* C24: from the start of an incremental load to its failure the list, the cursor
\* and the total count do not change, and the failure sets hasMore false.
C24_FailedIncrementalKeepsPrefix ==
    [][( /\ catalogFetch # << >>
         /\ ~Head(catalogFetch).reset
         /\ ~(catLast'.op = "settle" /\ catLast'.outcome = "success") )
       => /\ UNCHANGED <<products, nextOffset, catalogTotalCount>>
          /\ ( catLast'.op = "settle" /\ catLast'.outcome = "error" )
                => ~hasMoreProducts' /\ ~isFetchingProducts']_vars

\* C24 witness: the second page failed to load; the first page is still the list.
C24_Witness ==
    /\ catLast.op = "settle"
    /\ ~catLast.reset
    /\ catLast.outcome = "error"
    /\ ~hasMoreProducts
    /\ Len(products) = productPageSize
    /\ nextOffset = productPageSize
    /\ catalogTotalCount = CatalogSize
    /\ cachedProducts = Item(<<1, 2, 3>>)

\* C25: with hasMore false, an incremental loadProducts call issues no request and
\* changes nothing; every request issued from such a state is a reset load's.
C25_ExhaustedShortCircuits ==
    /\ [][( /\ ~hasMoreProducts
            /\ catLast'.called
            /\ ~catLast'.reset )
          => /\ ~catLast'.issued
             /\ UNCHANGED <<products, nextOffset, hasMoreProducts, catalogTotalCount,
                            isFetchingProducts, catalogFetch>>]_vars
    /\ [][( /\ ~hasMoreProducts
            /\ Len(catalogFetch') > Len(catalogFetch) )
          => /\ catalogFetch'[Len(catalogFetch')].reset
             /\ catalogFetch'[Len(catalogFetch')].offset = 0]_vars

\* C25 witness: the sentinel became visible after a failed incremental load and its
\* call was dropped with no load outstanding.
C25_Witness ==
    /\ catLast.op = "observer"
    /\ catLast.called
    /\ ~catLast.issued
    /\ ~hasMoreProducts
    /\ ~isFetchingProducts
    /\ catalogFetch = << >>
    /\ Len(products) = productPageSize
    /\ catalogTotalCount > Len(products)

\* C26 (as claimed): every value a saveSnapshot callback writes under
\* cached_products is the product list as it stood at the end of some successful
\* load.
C26_SnapshotIsCompletedList ==
    [][( /\ catLast'.op = "saveSnapshot"
         /\ catLast'.outcome = "stored" )
       => /\ cachedProducts' = Item(products)
          /\ completedLists.list]_vars

\* C30: the response of the outstanding load is applied to the list and the cursor
\* by its own request alone, whatever the filter has become meanwhile; and a
\* request is issued only by a loadProducts call, never by the settling of a load.
C30_StaleResponseApplied ==
    /\ [][( /\ catLast'.op = "settle"
            /\ catLast'.outcome = "success" )
          => LET request == Head(catalogFetch)
                 incoming == ServerPage(request, ServerPageCount(request)).items
             IN  /\ products' = IF request.reset THEN incoming ELSE products \o incoming
                 /\ nextOffset' = nextOffset + Len(incoming)
                 /\ catalogFetch' = Tail(catalogFetch)]_vars
    /\ [][Len(catalogFetch') > Len(catalogFetch)
            => catLast'.called /\ catLast'.issued /\ ~isFetchingProducts]_vars

\* C30 witness: the search changed to "rose" while the unfiltered load was
\* outstanding; its response was applied and no request is outstanding.
C30_Witness ==
    /\ catLast.op = "settle"
    /\ catLast.outcome = "success"
    /\ Trim(currentQuery) = "rose"
    /\ products # << >>
    /\ products[1] = 1
    /\ catalogFetch = << >>

\* A saveCartToStorage call of the last cart event stored its value.
CartSnapshotWritten ==
    \/ /\ cartLast.op \in MutationKinds
       /\ cartLast.outcome = "done"
       /\ cartLast.notification # "error"
    \/ /\ cartLast.op = "checkout"
       /\ cartLast.outcome = "confirmed"
       /\ cartLast.notification = "order-success"

\* C27 (as claimed): whenever the cart snapshot is written, the cart stored came
\* from a server response or is the empty cart of a clear or a confirmed checkout;
\* never the value loadCart took from local storage.
C27_FallbackNeverPersisted ==
    CartSnapshotWritten =>
        /\ cartStorage = Item(cart)
        /\ cartOrigin \in {"server", "empty"}

\* C28 (as claimed): a cart mutation the server reported successful ends with the
\* same notification whether or not the snapshot write throws: none for an update,
\* the success message for the others.
C28_StorageFailureSwallowed ==
    ( /\ cartLast.op \in MutationKinds
      /\ cartLast.outcome = "done" )
    => cartLast.notification = IF cartLast.op = "update" THEN "none" ELSE "success"

\* C22: the worker's message listener calls skipWaiting exactly for the data
\* {type: SKIP_WAITING}, and the call is the worker's own; any other message leaves
\* the registration, the worker and the storage as they were.  A waiting worker that
\* has made the call can be activated whatever controls the tab, and the worker that
\* is activated takes over, in that step, a tab that the previous worker controls;
\* the tab stays open.  The client posts the message in two places only, and always
\* there: to the worker register() finds waiting, and from the statechange listener
\* of a tracked worker for the state "installed" while the tab has a controller.
C22_SkipWaitingMessage ==
    /\ [][ /\ (pwaLast'.op \in {"message", "message-lost"} =>
                  /\ pwaInbox # << >>
                  /\ pwaInbox' = Tail(pwaInbox)
                  /\ pwaLast'.op = "message" <=> Head(pwaInbox).to \in Alive
                  /\ pwaLast'.called <=> ( /\ pwaLast'.op = "message"
                                           /\ Head(pwaInbox).data = "SKIP_WAITING" )
                  /\ ~pwaLast'.called => pwaReg' = pwaReg
                  /\ (pwaLast'.called /\ pwaReg.worker.version = Head(pwaInbox).to) =>
                        pwaReg' = [pwaReg EXCEPT !.worker.skipWaiting = @ \cup {"message"}]
                  /\ UNCHANGED <<pwaDoc, tabReloads, pwaEvents, swState, cacheNames,
                                 cacheStore, swListener>>)
            /\ (swLast'.op = "activating" /\ swState = "installed" =>
                  /\ pwaReg'.active = pwaReg.worker.version
                  /\ pwaReg.controller # 0 =>
                        /\ pwaReg'.controller = pwaReg.worker.version
                        /\ pwaEvents' # << >>
                        /\ pwaEvents'[Len(pwaEvents')] = ControllerChangeEvent
                  /\ UNCHANGED <<pwaDoc, tabReloads>>)
            /\ (pwaLast'.op = "register" =>
                  /\ pwaLast'.posted <=> (Waiting # NoWorker)
                  /\ pwaLast'.posted =>
                        pwaInbox' = Append(pwaInbox, [to |-> Waiting.version,
                                                      data |-> "SKIP_WAITING"]))
            /\ (pwaLast'.op \in {"statechange", "statechange-unheard"} =>
                  /\ pwaEvents # << >>
                  /\ pwaLast'.posted <=> ( /\ Head(pwaEvents).version \in pwaDoc.tracked
                                           /\ Head(pwaEvents).state = "installed"
                                           /\ pwaReg.controller # 0 )
                  /\ pwaLast'.posted =>
                        pwaInbox' = Append(pwaInbox, [to |-> Head(pwaEvents).version,
                                                      data |-> "SKIP_WAITING"]))
            /\ (pwaLast'.op \notin {"register", "statechange", "message", "message-lost"} =>
                  \A i \in 1..Len(pwaInbox') :
                      pwaInbox'[i].data = "SKIP_WAITING" =>
                          /\ i <= Len(pwaInbox)
                          /\ pwaInbox[i] = pwaInbox'[i])
          ]_vars
    /\ []( ( /\ Waiting # NoWorker
             /\ "message" \in Waiting.skipWaiting
             /\ swListener = NoListener )
           => ENABLED WorkerActivates )

\* C22 witness: version 1 controlled the tab; version 2, tracked by the document, got
\* the message posted on statechange while it was waiting, called skipWaiting, and
\* was activated: it controls the tab, which is still open on the same document.
C22_Witness ==
    /\ swLast.op = "activating"
    /\ pwaReg.worker.version = 2
    /\ "message" \in pwaReg.worker.skipWaiting
    /\ pwaReg.controller = 2
    /\ pwaReg.active = 2
    /\ pwaEvents # << >>
    /\ pwaEvents[Len(pwaEvents)] = ControllerChangeEvent
    /\ pwaDoc.registered
    /\ 2 \in pwaDoc.tracked
    /\ tabReloads = 0

\* C29 (as claimed): a tab goes through at most one automatic reload.
C29_AtMostOncePerTab ==
    tabReloads + pwaDoc.reloadCalls <= 1

\* C29 (amended): a document calls location.reload() at most once, however many
\* controllerchange events it receives; the guard is a local of register() and so is
\* new in the document the reload produces.
C29_AtMostOncePerDocument ==
    /\ pwaDoc.reloadCalls <= 1
    /\ pwaDoc.reloadCalls = 1 <=> pwaDoc.reloadingForNewWorker

\* A second controllerchange event reached a document that had already asked for
\* its reload, and was ignored.
C29_Witness ==
    /\ pwaLast.op = "controllerchange"
    /\ pwaLast.ignored
    /\ pwaDoc.reloadCalls = 1
    /\ pwaDoc.unloading

(***************************************************************************)
(* CLAIMS C31 - C39: overlap, checkout records, liveness, partitions       *)
(***************************************************************************)

\* C31: a staleWhileRevalidate request answers with the entry stored under its key
\* when its cache read runs, so a read of the static partition that follows a
\* refresh write returns the refreshed copy, and a read before it the older copy;
\* every refresh write replaces the entry of its key and no other, so of several
\* writes to one key the last one is the entry stored.
C31_RefreshVisibleAfterWrite ==
    /\ [][swLast'.op = "static-cachedResponse" =>
            /\ swLast'.answer = IF HeldEntry(Stepped) # Undefined THEN HeldEntry(Stepped)
                                ELSE NoAnswer
            /\ cacheStore' = cacheStore]_vars
    /\ [][( /\ swLast.op = "cache-put"
            /\ swLast.wrote # {}
            /\ swLast'.op = "static-cachedResponse"
            /\ swLast'.request.path = swLast.request.path
            /\ Stepped.cache = CacheOf(STATIC_CACHE) )
          => swLast'.answer = swLast.network]_vars
    /\ [][swLast'.op = "cache-put" =>
            IF swLast'.wrote # {}
            THEN /\ swLast'.wrote = {<<STATIC_CACHE, swLast'.request.path>>}
                 /\ cacheStore' = [cacheStore EXCEPT
                        ![STATIC_CACHE][swLast'.request.path] = swLast'.network]
            ELSE cacheStore' = cacheStore]_vars

\* C31 witness: two refreshes of the style sheet wrote; the response carrying the
\* server's earlier content was written last, replaced the later content and is the
\* entry stored.
C31_Witness ==
    /\ swLast.op = "cache-put"
    /\ swLast.request.path = STYLE_URL
    /\ swLast.wrote # {}
    /\ swLast.network.body = "network"
    /\ swReplaced.body = "network-later"
    /\ cacheStore[STATIC_CACHE][STYLE_URL] = swLast.network
    /\ handlers = EmptyBag

\* C32 (as claimed): a confirmed checkout leaves in lastOrder the items the cart held
\* just before, the total of the cash check and a change that is not negative, and
\* leaves the cart and the stored cart snapshot empty; a failed checkout leaves the
\* cart, the snapshot and lastOrder as they were.
C32_CheckoutRecordsAndClears ==
    [][ /\ ( cartLast'.op = "checkout" /\ cartLast'.outcome = "confirmed" )
           => /\ lastOrder'.present
              /\ lastOrder'.items = cart
              /\ lastOrder'.total = cartLast'.total
              /\ ~lastOrder'.change.neg
              /\ cart' = << >>
              /\ cartStorage' = Item(<< >>)
        /\ ( cartLast'.op = "checkout" /\ cartLast'.outcome = "failed" )
           => UNCHANGED <<cart, cartStorage, lastOrder>> ]_vars

\* C33: the in-flight flag is set only while a request of loadProducts is
\* outstanding, and when every fetch eventually settles a set flag is eventually
\* cleared, whichever way the fetch ends.
C33_LoadReturnsToIdle ==
    /\ [](isFetchingProducts <=> catalogFetch # << >>)
    /\ (isFetchingProducts ~> ~isFetchingProducts)

\* C33 witness: a load ended on a failure path and the data layer is idle.
C33_Witness ==
    /\ catLast.op = "settle"
    /\ catLast.outcome = "error"
    /\ ~isFetchingProducts
    /\ catalogFetch = << >>

\* C34: while hasMore is true the cursor equals the length of the list; and every
\* incremental request issued carries the offset that is the length of the list,
\* with the page size of the moment as its limit.
C34_CursorIsListLength ==
    /\ [](hasMoreProducts => nextOffset = Len(products))
    /\ [][( /\ catLast'.called
            /\ catLast'.issued
            /\ ~catLast'.reset )
          => LET request == catalogFetch'[Len(catalogFetch')]
             IN  /\ request.offset = Len(products)
                 /\ request.offset = nextOffset
                 /\ request.limit = productPageSize
                 /\ UNCHANGED <<products, nextOffset>>]_vars

\* C34 witness: the first page was loaded with the small page size, the viewport
\* grew, and the incremental request asks for the medium page from the offset just
\* after the last loaded item.
C34_Witness ==
    /\ catLast.called /\ catLast.issued /\ ~catLast.reset
    /\ Len(catalogFetch) = 1
    /\ catalogFetch[1].offset = PageSmall
    /\ catalogFetch[1].limit = PageMedium
    /\ Len(products) = PageSmall
    /\ hasMoreProducts

\* The partition a request's strategy may write.
TargetOf(request) ==
    IF Precedence(request) = "staleWhileRevalidate" THEN {STATIC_CACHE}
    ELSE IF Precedence(request) \in {"navigationHandler", "networkFirst"} THEN {RUNTIME_CACHE}
    ELSE {}

\* C35: a step of request handling writes only under its request's key, in the
\* partition of its strategy (static for staleWhileRevalidate, runtime for
\* networkFirst and the navigation handler, none for the API route and for requests
\* passed through); it changes no other entry, and every partition it creates
\* carries a current-version name, which activate does not delete.
C35_WritesCurrentPartitions ==
    [][swLast'.request # NoRequest =>
        LET target == IF swLast'.request.method = "GET" /\ swLast'.request.origin = "self"
                      THEN TargetOf(swLast'.request) ELSE {}
        IN  /\ swLast'.wrote \subseteq {<<n, swLast'.request.path>> : n \in target}
            /\ swLast'.wrote = {} => cacheStore' = cacheStore
            /\ \A w \in swLast'.wrote :
                  cacheStore' = [cacheStore EXCEPT ![w[1]][w[2]] = swLast'.network]
            /\ \A n \in SeqRange(cacheNames') \ SeqRange(cacheNames) :
                  n \in target /\ ~IsStale(n)]_vars

\* C35 witness: networkFirst stored the page /about in the runtime partition and the
\* static partition has no entry for it.
C35_Witness ==
    /\ swLast.op = "cache-put"
    /\ swLast.request.mode = "cors"
    /\ swLast.wrote = {<<RUNTIME_CACHE, ABOUT_URL>>}
    /\ cacheStore[RUNTIME_CACHE][ABOUT_URL] = Basic(ABOUT_URL, 200, "network")
    /\ cacheStore[STATIC_CACHE][ABOUT_URL] = Undefined
    /\ SeqRange(cacheNames) = CurrentCaches

\* C36 (as claimed): when the navigation handler looks up the cached copy of the
\* requested page and both the static and the runtime partition hold an entry for
\* it, the answer is the runtime entry.
C36_FallbackPrefersRuntime ==
    ( /\ swLast.op = "navigation-cachedPage"
      /\ {STATIC_CACHE, RUNTIME_CACHE} \subseteq SeqRange(cacheNames)
      /\ cacheStore[STATIC_CACHE][swLast.request.path] # Undefined
      /\ cacheStore[RUNTIME_CACHE][swLast.request.path] # Undefined )
    => swLast.answer = cacheStore[RUNTIME_CACHE][swLast.request.path]

\* C37 (as claimed): when cart mutations were in flight together and none failed,
\* then once no operation is outstanding the in-memory cart and the stored snapshot
\* are the server's cart, the one its last applied mutation returned.
C37_OverlapEndsConsistent ==
    ( /\ cartRun = "overlap"
      /\ cartOps = EmptyBag )
    => /\ cart = CartArray(serverCart)
       /\ cartStorage = Item(cart)

\* C38 (as claimed): a step of cacheSuccessResponse for a navigation, whether its
\* caches.open or cache.put succeeds or throws, never starts the lookup of the
\* cached page, and when it ends the call the handler answers with the network
\* response.
C38_WriteFailureKeepsAnswer ==
    [][( /\ swLast'.op \in {"cache-open", "cache-put"}
         /\ swLast'.request.mode = "navigate" )
       => /\ swLast'.answer \in {NoAnswer, swLast'.network}
          /\ \A t \in BagToSet(handlers') :
                t.pc = "cachedPage" => CopiesIn(t, handlers') <= CopiesIn(t, handlers)]_vars

\* C39: a refresh whose fetch failed, or brought a response that is not stored
\* (status other than 200, type error), ends there and leaves every partition as it
\* was; no write of a refresh stores such a response; and a staleWhileRevalidate
\* read of the key right after the refresh is answered with the entry that was
\* stored before.
C39_FailedRefreshKeepsEntry ==
    /\ [][( /\ swLast'.op = "refresh"
            /\ (swLast'.network = Rejected \/ ~IsCacheable(swLast'.network)) )
          => /\ cacheStore' = cacheStore
             /\ cacheNames' = cacheNames
             /\ swLast'.wrote = {}
             /\ handlers' \sqsubseteq handlers]_vars
    /\ [][swLast'.op \in {"cache-open", "cache-put"} =>
             swLast'.network.status = 200 /\ swLast'.network.type # "error"]_vars
    /\ [][( /\ swLast.op = "refresh"
            /\ (swLast.network = Rejected \/ ~IsCacheable(swLast.network))
            /\ swLast'.op = "static-cachedResponse"
            /\ swLast'.request.path = swLast.request.path
            /\ Stepped.cache = CacheOf(STATIC_CACHE)
            /\ cacheStore[STATIC_CACHE][swLast.request.path] # Undefined )
          => swLast'.answer = cacheStore[STATIC_CACHE][swLast.request.path]]_vars

\* C39 witness: the refresh of the style sheet got a 404; the entry stored by
\* install is still there.
C39_Witness ==
    /\ swLast.op = "refresh"
    /\ swLast.request.path = STYLE_URL
    /\ swLast.network.status = 404
    /\ STATIC_CACHE \in SeqRange(cacheNames)
    /\ cacheStore[STATIC_CACHE][STYLE_URL] = Basic(STYLE_URL, 200, "precached")


====
